---------------------------- MODULE Spec2Model ----------------------------
(***************************************************************************)
(* Receipt ingestion pipeline of asintiko/parcer20: the monitor registry   *)
(* (monitored_bot_chats), the capture layer (live push and catch-up), the  *)
(* in-process work queue with its in-flight set, the workers of            *)
(* TgAutoMonitorService, process_tdlib_message and the transactions table. *)
(*                                                                         *)
(* Scheduling: everything except the TDLib receiver thread runs on one     *)
(* asyncio loop and every database call is synchronous, so a coroutine is  *)
(* atomic between two awaits.  process_tdlib_message awaits get_message    *)
(* and (for a PDF) download_file; nothing shared is read or written        *)
(* between these two awaits, so they are one suspension here.              *)
(***************************************************************************)
EXTENDS Integers, Sequences, FiniteSets, TLC

\* ------------------------------------------------------------------ bounds
NumChats == 2
MaxMessages == 2
NumContents == 2
NumCallers == 1
MaxJobs == 2
MaxAmount == 12
MaxTextLen == 21
MaxExtractedLen == 81
\* concurrent callers of the TDLib manager, requests it may send, and updates
\* the library may push
NumRequesters == 2
MaxTokens == 3
MaxUpdates == 1
\* rows of operator_reference, and characters of a row's name and of an
\* operator string
MaxRefs == 2
MaxNameLen == 2
MaxOperatorLen == 3
\* the coefficient and the decimal places of a Decimal amount
MaxCoefficient == 10
MaxPlaces == 1
\* characters of an amount string
MaxAmountLen == 4
\* characters of a currency string of the model
MaxCurrencyLen == 4
\* tuples the queue may hold when the service is started again
MaxBacklog == 2

\* -------------------------------------------------------- program constants
NumWorkers == 2
\* process_receipt_task: max_retries
MaxRetries == 3
MIN_RECEIPT_TEXT_LENGTH == 20
\* ParserOrchestrator.confidence_threshold, in hundredths
confidence_threshold == 80
\* process_tdlib_message: the confidence below which a text record of a PDF
\* is dropped, in hundredths, and the least length of the extracted text
MinTextConfidence == 75
MinExtractedLen == 80
\* ParserOrchestrator.process: the least confidence of an accepted
\* application answer, in hundredths
MinResolveConfidence == 75
\* Transaction.currency is String(3)
CurrencyWidth == 3

Chats == 1..NumChats
MsgIds == 1..MaxMessages
Keys == Chats \X MsgIds
Contents == 1..NumContents
Workers == 1..NumWorkers
Callers == (NumWorkers + 1)..(NumWorkers + NumCallers)
Procs == Workers \cup Callers
Requesters == 1..NumRequesters

VARIABLES
    history,      \* history[c]: ids of the messages currently in chat c
    passing,      \* keys of the messages that pass _should_process_message
    lastId,       \* lastId[c]: id of the newest message chat c ever received
    gpt_enabled,  \* OPENAI_API_KEY is configured
    enabled,      \* MonitoredBotChat.enabled
    cursor,       \* MonitoredBotChat.last_processed_message_id
    last_error,   \* MonitoredBotChat.last_error
    txns,         \* the transactions table, in insertion order (id = index)
    queue,        \* TgAutoMonitorService.queue
    inflight,     \* TgAutoMonitorService._inflight
    proc,         \* per worker / API request: position and message key
    catchup,      \* position of _catchup_loop and the chats still to scan
    retry,        \* keys whose latest worker attempt ended in a transient failure
    response,     \* what the processing that ended in the last step returned
    offered,      \* the keys the last step passed to _enqueue
    running,      \* TgAutoMonitorService._running
    tasks,        \* receipt_processing_tasks, one row per (chat_id, message_id)
    jobs,         \* the Celery tasks dispatched so far (task id = index)
    input,        \* argument of the function a functional specification applies
    output,       \* its result
    session,      \* TelegramTDLibManager: client, receiver, auth state, _pending
    refs,         \* operator_reference rows in id order (id = index)
    writeback     \* per worker: position in the suggestion write-back

vars == <<history, passing, lastId, gpt_enabled, enabled, cursor, last_error,
          txns, queue, inflight, proc, catchup, retry, response, offered,
          running, tasks, jobs, input, output, session, refs, writeback>>

\* ------------------------------------------------------------- error texts
\* str(HTTPException) lower-cased, as the words of its detail.
NoError == <<>>
ErrFetch == <<"failed", "to", "fetch", "message">>
ErrNotFound == <<"message", "not", "found">>
ErrVision == <<"openai", "api", "key", "not", "configured", "cannot", "run",
               "vision", "parsing", "for", "pdf", "receipt">>
ErrVisionParse == <<"cannot", "parse", "receipt", "from", "pdf", "images">>
ErrParse == <<"cannot", "parse", "receipt">>
ErrUnsupported == <<"unsupported", "document", "type">>
ErrEmpty == <<"empty", "message", "content">>
ErrInvalidDate == <<"invalid", "transaction_date">>
ErrMissingDate == <<"parsed", "data", "missing", "transaction_date">>
ErrMissingAmount == <<"parsed", "data", "missing", "amount">>
ErrSave == <<"failed", "to", "save", "transaction">>
ErrRender == <<"failed", "to", "render", "pdf">>
ErrDownload == <<"pdf", "download", "extract", "failed">>
ErrParseNone == <<"parsing", "returned", "none">>
ErrAttribute ==
    <<"type", "object", "transaction", "has", "no", "attribute", "fingerprint">>

PermanentPatterns ==
    { <<"cannot", "parse">>, <<"empty", "message">>, <<"unsupported">>,
      <<"missing">>, <<"invalid">> }

Contains(text, pat) ==
    \E i \in 1..(Len(text) - Len(pat) + 1) :
        SubSeq(text, i, i + Len(pat) - 1) = pat

\* Matching on single words of the patterns instead of the phrases.
IsPermanentErrorAnyWord(text) ==
    \E pat \in PermanentPatterns :
        \E i \in 1..Len(pat) : Contains(text, <<pat[i]>>)

IsPermanentError(text) == \E pat \in PermanentPatterns : Contains(text, pat)

\* ----------------------------------------------------------------- helpers
\* The cursor written as message_id, without greatest().
Latest(a, b) == b

\* func.greatest
Max(a, b) == IF a >= b THEN a ELSE b

MaxOf(S) == CHOOSE x \in S : \A y \in S : y <= x

MinOf(S) == CHOOSE x \in S : \A y \in S : x <= y

\* The ids from the highest down.
RECURSIVE Descending(_)
Descending(S) ==
    IF S = {} THEN <<>> ELSE <<MaxOf(S)>> \o Descending(S \ {MaxOf(S)})

\* sorted(set(...))
RECURSIVE Sorted(_)
Sorted(S) == IF S = {} THEN <<>> ELSE <<MinOf(S)>> \o Sorted(S \ {MinOf(S)})

\* ------------------------------------------------------ transactions table
AllowedParsingMethods ==
    {"REGEX_HUMO", "REGEX_SMS", "REGEX_SEMICOLON", "REGEX_CARDXABAR", "GPT"}

HasRow(rows, k) ==
    \E i \in 1..Len(rows) : rows[i].chat = k[1] /\ rows[i].msg = k[2]

RowId(rows, k) ==
    CHOOSE i \in 1..Len(rows) : rows[i].chat = k[1] /\ rows[i].msg = k[2]

\* The table without uq_transactions_source_msg.
NoUniqueSource(rows, k) == TRUE

\* uq_transactions_source_msg
UniqueSourceOk(rows, k) == ~HasRow(rows, k)

\* check_parsing_method
ParsingMethodOk(method) == method \in AllowedParsingMethods

Outcome(kind, txn, err, rows) ==
    [kind |-> kind, txn |-> txn, err |-> err, rows |-> rows]

\* db.add(txn); db.commit() and the except branch around them.
InsertTransaction(rows, k, content, method) ==
    IF ParsingMethodOk(method) /\ UniqueSourceOk(rows, k)
    THEN LET row == [chat |-> k[1], msg |-> k[2], content |-> content]
         IN Outcome("created", Len(rows) + 1, NoError, Append(rows, row))
    ELSE Outcome("error", 0, ErrSave, rows)

\* ----------------------------------------------------------------- replies
\* What the awaits of process_tdlib_message deliver and what the parsers
\* make of it: shape of the message, whether the PDF needs the vision
\* fallback, the parsed content key (0: no record), the method tag and the
\* first defect of the parsed record ("none": every parser returns a record
\* with a datetime and an amount, or no record).
TextMethods == {"REGEX_SMS", "GPT"}

Reply(shape, vision, content, method, defect) ==
    [shape |-> shape, vision |-> vision, content |-> content, method |-> method,
     defect |-> defect]

\* get_message raised / returned nothing.
FetchFailures ==
    {Reply("timeout", FALSE, 0, "GPT", "none"), Reply("none", FALSE, 0, "GPT", "none")}

\* A document that is no PDF, a message without text, a text no parser reads.
Unreadable ==
    {Reply(sh, FALSE, 0, "GPT", "none") : sh \in {"document", "empty", "text"}}

Parsed(contents) ==
    {Reply(sh, FALSE, ct, mt, "none") :
        sh \in {"text", "pdf"}, ct \in contents, mt \in TextMethods}

Vision(contents) ==
    {Reply("pdf", TRUE, ct, "GPT_VISION", "none") : ct \in {0} \cup contents}

Replies(contents) ==
    FetchFailures \cup Unreadable \cup Parsed(contents) \cup Vision(contents)

\* The checks between the parse and the insert.
ValidateParsed(rows, defect) ==
    IF defect = "invalid_date" THEN Outcome("error", 0, ErrInvalidDate, rows)
    ELSE IF defect = "missing_date" THEN Outcome("error", 0, ErrMissingDate, rows)
    ELSE IF defect = "missing_amount" THEN Outcome("error", 0, ErrMissingAmount, rows)
    ELSE Outcome("ok", 0, NoError, rows)

\* The body of process_tdlib_message after the duplicate check.
ProcessReply(rows, k, reply, gpt) ==
    IF reply.shape = "timeout" THEN Outcome("error", 0, ErrFetch, rows)
    ELSE IF reply.shape = "none" THEN Outcome("error", 0, ErrNotFound, rows)
    ELSE IF reply.shape = "document" THEN Outcome("error", 0, ErrUnsupported, rows)
    ELSE IF reply.shape = "pdf" /\ reply.vision /\ ~gpt
    THEN Outcome("error", 0, ErrVision, rows)
    ELSE IF reply.shape = "pdf" /\ reply.vision /\ reply.content = 0
    THEN Outcome("error", 0, ErrVisionParse, rows)
    ELSE IF reply.shape = "empty" THEN Outcome("error", 0, ErrEmpty, rows)
    ELSE IF reply.content = 0 THEN Outcome("error", 0, ErrParse, rows)
    ELSE IF ValidateParsed(rows, reply.defect).kind = "error"
    THEN ValidateParsed(rows, reply.defect)
    ELSE InsertTransaction(rows, k, reply.content, reply.method)

\* ------------------------------------------------------------------- queue
\* _enqueue without the in-flight test.
EnqueueUnchecked(st, rows, k) ==
    IF HasRow(rows, k) THEN st
    ELSE [queue |-> Append(st.queue, k), inflight |-> st.inflight \cup {k}]

\* _enqueue on the pair st = [queue, inflight].
Enqueue(st, rows, k) ==
    IF k \in st.inflight THEN st
    ELSE IF HasRow(rows, k) THEN st
    ELSE [queue |-> Append(st.queue, k), inflight |-> st.inflight \cup {k}]

RECURSIVE EnqueueAll(_, _, _, _)
EnqueueAll(st, rows, c, mids) ==
    IF mids = <<>> THEN st
    ELSE EnqueueAll(Enqueue(st, rows, <<c, Head(mids)>>), rows, c, Tail(mids))

\* ---------------------------------------------------------------- response
NoResponse ==
    [by |-> 0, key |-> <<0, 0>>, kind |-> "none", txn |-> 0, err |-> NoError,
     prev |-> 0, fetched |-> FALSE]

Response(p, k, out, fetched) ==
    [by |-> p, key |-> k, kind |-> out.kind, txn |-> out.txn, err |-> out.err,
     prev |-> cursor[k[1]], fetched |-> fetched]

Idle == [pc |-> "idle", key |-> <<0, 0>>]

\* No receipt_processing_tasks row for the address.
NoTask == [status |-> "none", task_id |-> 0, txn |-> 0, err |-> NoError]

\* What each concurrent caller of the manager is doing: the method it runs
\* (op), where it is suspended (pc), the "@extra" of the request it awaits
\* (token), what its future resolved to (reply).
NoCall == [pc |-> "idle", op |-> "none", token |-> 0, reply |-> "none"]

\* What the last step of the manager did, for the steps that end something:
\* a method returned or raised (return), a future was resolved (resolve), a
\* message went to _process_update (update).
NoEvent == [kind |-> "none", r |-> 0, op |-> "none", ret |-> "none", extra |-> 0]

\* TelegramTDLibManager.__init__: no client, no receiver thread, nothing
\* pending, nobody cached.  sent / answered / inbox are the traffic with the
\* library: requests handed to client.send, those it has answered, messages
\* client.receive has still to deliver.
NewSession ==
    [client |-> FALSE, receiver |-> FALSE,
     auth |-> "authorizationStateWaitPhoneNumber",
     me |-> "none", params_applied |-> FALSE,
     pending |-> <<>>, uuid |-> 0,
     sent |-> {}, answered |-> {}, inbox |-> {}, pushed |-> 0,
     event |-> NoEvent,
     req |-> [r \in Requesters |-> NoCall]]

\* A worker that is not writing a suggestion back.
NoWriteback == [pc |-> "idle"]

NoInput == [kind |-> "none"]

NoOutput == [kind |-> "none"]

\* The state after start(): empty histories, the chats of `monitored` have an
\* enabled row with the server defaults, nothing queued.
InitCapture(monitored) ==
    /\ history = [c \in Chats |-> {}]
    /\ passing = {}
    /\ lastId = [c \in Chats |-> 0]
    /\ gpt_enabled \in BOOLEAN
    /\ enabled = [c \in Chats |-> c \in monitored]
    /\ cursor = [c \in Chats |-> 0]
    /\ last_error = [c \in Chats |-> NoError]
    /\ txns = <<>>
    /\ queue = <<>>
    /\ inflight = {}
    /\ proc = [p \in Procs |-> Idle]
    /\ catchup = [pc |-> "sleep", todo |-> <<>>]
    /\ retry = {}
    /\ response = NoResponse
    /\ offered = {}
    /\ running = TRUE
    /\ tasks = [k \in Keys |-> NoTask]
    /\ jobs = <<>>

\* The whole service after construction: the capture state above, a manager
\* that has not been started, an empty dictionary, no write-back under way.
InitService(monitored) ==
    /\ InitCapture(monitored)
    /\ session = NewSession
    /\ refs = <<>>
    /\ writeback = [w \in Workers |-> NoWriteback]

InitWith(monitored) ==
    /\ InitService(monitored)
    /\ input = NoInput
    /\ output = NoOutput

Init == InitWith(Chats)

\* Number of messages that have arrived so far, over all chats.
RECURSIVE Arrived(_, _)
Arrived(last, cs) ==
    IF cs = {} THEN 0
    ELSE LET c == CHOOSE x \in cs : TRUE IN last[c] + Arrived(last, cs \ {c})

\* ------------------------------------------------------------- environment
\* A message arrives in chat c.  When the updateNewMessage is delivered,
\* _handle_new_message runs: monitor enabled, filter, _enqueue.
NewMessage(c, passes, delivered) ==
    /\ Arrived(lastId, Chats) < MaxMessages
    /\ LET m == lastId[c] + 1
           st == [queue |-> queue, inflight |-> inflight]
           st2 == IF delivered /\ enabled[c] /\ passes
                  THEN Enqueue(st, txns, <<c, m>>) ELSE st
       IN /\ lastId' = [lastId EXCEPT ![c] = m]
          /\ history' = [history EXCEPT ![c] = @ \cup {m}]
          /\ passing' = IF passes THEN passing \cup {<<c, m>>} ELSE passing
          /\ queue' = st2.queue
          /\ inflight' = st2.inflight
    /\ response' = NoResponse
    /\ UNCHANGED <<gpt_enabled, enabled, cursor, last_error, txns, proc,
                   catchup, retry>>
    /\ offered' = IF delivered /\ enabled[c] /\ passes
                  THEN {<<c, lastId[c] + 1>>} ELSE {}
    /\ UNCHANGED <<running, tasks, jobs, input, output, session, refs, writeback>>

\* A message is deleted from the chat.
DeleteMessage(c, m) ==
    /\ m \in history[c]
    /\ history' = [history EXCEPT ![c] = @ \ {m}]
    /\ passing' = passing \ {<<c, m>>}
    /\ retry' = retry \ {<<c, m>>}
    /\ response' = NoResponse
    /\ UNCHANGED <<lastId, gpt_enabled, enabled, cursor, last_error, txns,
                   queue, inflight, proc, catchup>>
    /\ offered' = {}
    /\ UNCHANGED <<running, tasks, jobs, input, output, session, refs, writeback>>

\* ---------------------------------------------------------- monitor registry
\* PUT /monitors/{chat_id}; its one await is the fetch of the newest message.
\* A seed from the oldest message of the chat.
SeedOldest(cur, hist) == IF hist = {} THEN cur ELSE MinOf(hist)

SeedCursor(cur, hist) == IF hist = {} THEN cur ELSE MaxOf(hist)

\* The answer of the route: the row's cursor after the commit; prev is the
\* cursor before, fetched tells whether get_messages was called.
MonitoredChat(c, before, after, fetched) ==
    [by |-> 0, key |-> <<c, after>>, kind |-> "monitor", txn |-> 0,
     err |-> NoError, prev |-> before, fetched |-> fetched]

UpdateMonitor(c, en, start_from_latest) ==
    /\ enabled' = [enabled EXCEPT ![c] = en]
    /\ cursor' = IF en /\ start_from_latest
                 THEN [cursor EXCEPT ![c] = SeedCursor(@, history[c])]
                 ELSE cursor
    /\ response' = MonitoredChat(c, cursor[c], cursor'[c], en /\ start_from_latest)
    /\ UNCHANGED <<history, passing, lastId, gpt_enabled, last_error, txns,
                   queue, inflight, proc, catchup, retry>>
    /\ offered' = {}
    /\ UNCHANGED <<running, tasks, jobs, input, output, session, refs, writeback>>

\* ------------------------------------------------------------------ workers
\* The end of _process_single (commit, classification of the error, update of
\* the monitor row) and the finally block of _worker.
FinishWorker(w, k, out, fetched) ==
    LET c == k[1]
        m == k[2]
        permanent == out.kind = "error" /\ IsPermanentError(out.err)
        success == out.kind # "error" \/ permanent
    IN /\ txns' = out.rows
       /\ cursor' = IF success THEN [cursor EXCEPT ![c] = Max(@, m)] ELSE cursor
       /\ last_error' = [last_error EXCEPT ![c] = out.err]
       /\ inflight' = inflight \ {k}
       /\ retry' = IF ~success /\ m \in history[c]
                   THEN retry \cup {k} ELSE retry \ {k}
       /\ proc' = [proc EXCEPT ![w] = Idle]
       /\ response' = Response(w, k, out, fetched)

\* queue.get() and _process_single up to the first await.
WorkerDequeue(w) ==
    /\ proc[w].pc = "idle"
    /\ queue # <<>>
    /\ LET k == Head(queue)
       IN /\ queue' = Tail(queue)
          /\ IF ~enabled[k[1]]
             THEN /\ inflight' = inflight \ {k}
                  /\ response' = Response(w, k, Outcome("skipped", 0, NoError, txns), FALSE)
                  /\ UNCHANGED <<txns, cursor, last_error, retry, proc>>
             ELSE IF HasRow(txns, k)
             THEN FinishWorker(w, k, Outcome("duplicate", RowId(txns, k), NoError, txns), FALSE)
             ELSE /\ proc' = [proc EXCEPT ![w] = [pc |-> "await", key |-> k]]
                  /\ response' = NoResponse
                  /\ UNCHANGED <<txns, cursor, last_error, inflight, retry>>
    /\ UNCHANGED <<history, passing, lastId, gpt_enabled, enabled, catchup>>
    /\ offered' = {}
    /\ UNCHANGED <<running, tasks, jobs, input, output, session, refs, writeback>>

\* The replies the chat session and the parsers can give for key k now.
ValidReply(k, reply) ==
    /\ k[2] \notin history[k[1]] => reply \in FetchFailures
    /\ ~gpt_enabled => ~(reply.content # 0 /\ reply.method \in {"GPT", "GPT_VISION"})

\* get_message (and download_file) return; the rest of _process_single.
WorkerResume(w, reply) ==
    /\ proc[w].pc = "await"
    /\ ValidReply(proc[w].key, reply)
    /\ FinishWorker(w, proc[w].key,
                    ProcessReply(txns, proc[w].key, reply, gpt_enabled), TRUE)
    /\ UNCHANGED <<history, passing, lastId, gpt_enabled, enabled, queue, catchup>>
    /\ offered' = {}
    /\ UNCHANGED <<running, tasks, jobs, input, output, session, refs, writeback>>

\* The except and finally blocks of _worker after an exception that
\* _process_single did not handle: the key leaves the in-flight set and the
\* loop goes back to queue.get().
WorkerEscapes(w, k) ==
    /\ inflight' = inflight
    /\ proc' = [proc EXCEPT ![w] = [pc |-> "dead", key |-> k]]

WorkerCatch(w, k) ==
    /\ inflight' = inflight \ {k}
    /\ proc' = [proc EXCEPT ![w] = Idle]

\* The read of the monitor row at the start of _process_single raises.
WorkerDequeueFails(w) ==
    /\ proc[w].pc = "idle"
    /\ queue # <<>>
    /\ queue' = Tail(queue)
    /\ WorkerCatch(w, Head(queue))
    /\ response' = Response(w, Head(queue), Outcome("crashed", 0, NoError, txns), FALSE)
    /\ offered' = {}
    /\ UNCHANGED <<history, passing, lastId, gpt_enabled, enabled, cursor,
                   last_error, txns, catchup, retry>>
    /\ UNCHANGED <<running, tasks, jobs, input, output, session, refs, writeback>>

\* process_tdlib_message ended (its insert is committed) and the update of
\* the monitor row, or its commit, raises.
WorkerResumeFails(w, reply) ==
    /\ proc[w].pc = "await"
    /\ ValidReply(proc[w].key, reply)
    /\ LET k == proc[w].key
           out == ProcessReply(txns, k, reply, gpt_enabled)
           success == out.kind # "error" \/ IsPermanentError(out.err)
       IN /\ txns' = out.rows
          /\ WorkerCatch(w, k)
          /\ retry' = IF ~success /\ k[2] \in history[k[1]]
                      THEN retry \cup {k} ELSE retry \ {k}
          /\ response' = Response(w, k, Outcome("crashed", out.txn, out.err, out.rows), TRUE)
    /\ offered' = {}
    /\ UNCHANGED <<history, passing, lastId, gpt_enabled, enabled, cursor,
                   last_error, queue, catchup>>
    /\ UNCHANGED <<running, tasks, jobs, input, output, session, refs, writeback>>

\* --------------------------------------------------- POST /process-receipt
\* process_tdlib_message(force=False) up to the first await.
ApiCall(a, k) ==
    /\ proc[a].pc = "idle"
    /\ IF HasRow(txns, k)
       THEN /\ response' = Response(a, k, Outcome("duplicate", RowId(txns, k), NoError, txns), FALSE)
            /\ UNCHANGED proc
       ELSE /\ proc' = [proc EXCEPT ![a] = [pc |-> "await", key |-> k]]
            /\ response' = NoResponse
    /\ UNCHANGED <<history, passing, lastId, gpt_enabled, enabled, cursor,
                   last_error, txns, queue, inflight, catchup, retry>>
    /\ offered' = {}
    /\ UNCHANGED <<running, tasks, jobs, input, output, session, refs, writeback>>

\* process_tdlib_message(force=True) up to the first await: the row found for
\* the address is not returned.
ApiForce(a, k) ==
    /\ proc[a].pc = "idle"
    /\ proc' = [proc EXCEPT ![a] = [pc |-> "await", key |-> k]]
    /\ response' = NoResponse
    /\ UNCHANGED <<history, passing, lastId, gpt_enabled, enabled, cursor,
                   last_error, txns, queue, inflight, catchup, retry>>
    /\ offered' = {}
    /\ UNCHANGED <<running, tasks, jobs, input, output, session, refs, writeback>>

ApiResume(a, reply) ==
    /\ proc[a].pc = "await"
    /\ ValidReply(proc[a].key, reply)
    /\ LET k == proc[a].key
           out == ProcessReply(txns, k, reply, gpt_enabled)
       IN /\ txns' = out.rows
          /\ retry' = IF out.kind = "created" THEN retry \ {k} ELSE retry
          /\ response' = Response(a, k, out, TRUE)
    /\ proc' = [proc EXCEPT ![a] = Idle]
    /\ UNCHANGED <<history, passing, lastId, gpt_enabled, enabled, cursor,
                   last_error, queue, inflight, catchup>>
    /\ offered' = {}
    /\ UNCHANGED <<running, tasks, jobs, input, output, session, refs, writeback>>

\* ----------------------------------------------------------------- catch-up
\* _run_catchup_once: the enabled chats with the cursor each had when read.
RECURSIVE Snapshot(_)
Snapshot(cs) ==
    IF cs = <<>> THEN <<>>
    ELSE IF enabled[Head(cs)]
    THEN <<[chat |-> Head(cs), cursor |-> cursor[Head(cs)]]>> \o Snapshot(Tail(cs))
    ELSE Snapshot(Tail(cs))

\* _catchup_chat returns at once for a chat that is no longer enabled.
RECURSIVE SkipDisabled(_)
SkipDisabled(todo) ==
    IF todo = <<>> THEN <<>>
    ELSE IF enabled[Head(todo).chat] THEN todo
    ELSE SkipDisabled(Tail(todo))

Scan(todo) ==
    IF todo = <<>> THEN [pc |-> "sleep", todo |-> <<>>]
    ELSE [pc |-> "await", todo |-> todo]

CatchupBegin ==
    /\ catchup.pc = "sleep"
    /\ Snapshot(Sorted(Chats)) # <<>>
    /\ catchup' = Scan(Snapshot(Sorted(Chats)))
    /\ response' = NoResponse
    /\ UNCHANGED <<history, passing, lastId, gpt_enabled, enabled, cursor,
                   last_error, txns, queue, inflight, proc, retry>>
    /\ offered' = {}
    /\ UNCHANGED <<running, tasks, jobs, input, output, session, refs, writeback>>

\* Ids of one chat that _catchup_chat collects (the history is shorter than
\* one batch of 100, so the first get_messages reply ends the loop).
Collected(c, last_processed_id) ==
    {m \in history[c] : m > last_processed_id /\ <<c, m>> \in passing}

\* get_messages returns for the chat at the head of the list.
CatchupResume ==
    /\ catchup.pc = "await"
    /\ LET c == Head(catchup.todo).chat
           mids == Sorted(Collected(c, Head(catchup.todo).cursor))
           st == EnqueueAll([queue |-> queue, inflight |-> inflight], txns, c, mids)
       IN /\ queue' = st.queue
          /\ inflight' = st.inflight
    /\ catchup' = Scan(SkipDisabled(Tail(catchup.todo)))
    /\ response' = NoResponse
    /\ UNCHANGED <<history, passing, lastId, gpt_enabled, enabled, cursor,
                   last_error, txns, proc, retry>>
    /\ offered' = {<<Head(catchup.todo).chat, m>> :
                       m \in Collected(Head(catchup.todo).chat,
                                       Head(catchup.todo).cursor)}
    /\ UNCHANGED <<running, tasks, jobs, input, output, session, refs, writeback>>

\* get_messages raises: the exception ends the iteration in _catchup_loop.
CatchupFail ==
    /\ catchup.pc = "await"
    /\ catchup' = [pc |-> "sleep", todo |-> <<>>]
    /\ response' = NoResponse
    /\ UNCHANGED <<history, passing, lastId, gpt_enabled, enabled, cursor,
                   last_error, txns, queue, inflight, proc, retry>>
    /\ offered' = {}
    /\ UNCHANGED <<running, tasks, jobs, input, output, session, refs, writeback>>

\* ---------------------------------------------------------------- lifecycle
\* A cancelled worker or catch-up task: CancelledError is raised at its await
\* and is not an Exception, so the task ends.
Cancelled == [pc |-> "cancelled", key |-> <<0, 0>>]

\* stop(): the flag, the cancellation of every task, _inflight.clear().  The
\* queue keeps its tuples and the new-message handler stays registered.
Stop ==
    /\ running
    /\ running' = FALSE
    /\ proc' = [p \in Procs |-> IF p \in Workers THEN Cancelled ELSE proc[p]]
    /\ catchup' = [pc |-> "cancelled", todo |-> <<>>]
    /\ inflight' = {}
    /\ response' = NoResponse
    /\ offered' = {}
    /\ UNCHANGED <<history, passing, lastId, gpt_enabled, enabled, cursor,
                   last_error, txns, queue, retry>>
    /\ UNCHANGED <<tasks, jobs, input, output, session, refs, writeback>>

\* start() after a stop(): the flag, fresh worker tasks and a fresh catch-up
\* task; the queue and the in-flight set are the ones stop() left.
Start ==
    /\ ~running
    /\ Len(queue) <= MaxBacklog
    /\ running' = TRUE
    /\ proc' = [p \in Procs |-> IF p \in Workers THEN Idle ELSE proc[p]]
    /\ catchup' = [pc |-> "sleep", todo |-> <<>>]
    /\ response' = NoResponse
    /\ offered' = {}
    /\ UNCHANGED <<history, passing, lastId, gpt_enabled, enabled, cursor,
                   last_error, txns, queue, inflight, retry>>
    /\ UNCHANGED <<tasks, jobs, input, output, session, refs, writeback>>

\* ------------------------------------------------- tracked Celery tasks
\* What process_receipt_task finds: the PDF cannot be downloaded, no parser
\* returns a record, or a record is parsed.
TaskOutcomes == {"download_failed", "unparsed", "parsed"}

Job(a, k, fresh) ==
    [key |-> k, pc |-> "sent", tries |-> 0, owner |-> a, fresh |-> fresh,
     pending |-> TRUE, tracked |-> FALSE]

\* The task a caller has dispatched and not yet recorded.
PendingJob(a) == CHOOSE j \in 1..Len(jobs) : jobs[j].owner = a /\ jobs[j].pending

\* queue_receipt_task after the endpoint fetched the message: the probe of
\* the tracking row and process_receipt_task.delay().
QueueDispatch(a, k) ==
    /\ proc[a].pc = "idle"
    /\ k[2] \in history[k[1]]
    /\ IF tasks[k].status \in {"queued", "processing"}
       THEN UNCHANGED <<jobs, proc>>
       ELSE /\ Len(jobs) < MaxJobs
            /\ jobs' = Append(jobs, Job(a, k, tasks[k].status = "none"))
            /\ proc' = [proc EXCEPT ![a] = [pc |-> "commit", key |-> k]]
    /\ response' = NoResponse
    /\ offered' = {}
    /\ UNCHANGED <<history, passing, lastId, gpt_enabled, enabled, cursor,
                   last_error, txns, queue, inflight, catchup, retry>>
    /\ UNCHANGED <<running, tasks, input, output, session, refs, writeback>>

\* queue_receipt_task: the tracking row is updated, or inserted (the insert
\* is refused when another caller inserted the row of the address first).
QueueCommit(a) ==
    /\ proc[a].pc = "commit"
    /\ LET j == PendingJob(a)
           k == jobs[j].key
       IN /\ tasks' = IF jobs[j].fresh /\ tasks[k].status # "none"
                       THEN tasks
                       ELSE [tasks EXCEPT ![k] = [status |-> "queued", task_id |-> j,
                                                  txn |-> 0, err |-> NoError]]
          /\ jobs' = [jobs EXCEPT ![j].pending = FALSE]
    /\ proc' = [proc EXCEPT ![a] = Idle]
    /\ response' = NoResponse
    /\ offered' = {}
    /\ UNCHANGED <<history, passing, lastId, gpt_enabled, enabled, cursor,
                   last_error, txns, queue, inflight, catchup, retry>>
    /\ UNCHANGED <<running, input, output, session, refs, writeback>>

\* The tracking row process_receipt_task finds by its task id.
Tracking(j) == tasks[jobs[j].key].status # "none" /\ tasks[jobs[j].key].task_id = j

\* process_receipt_task, first run or retry, up to the commit of 'processing'.
TaskStart(j) ==
    /\ jobs[j].pc \in {"sent", "retry"}
    /\ tasks' = IF Tracking(j)
                THEN [tasks EXCEPT ![jobs[j].key].status = "processing",
                                   ![jobs[j].key].err = NoError]
                ELSE tasks
    /\ jobs' = [jobs EXCEPT ![j].pc = "running", ![j].tracked = Tracking(j)]
    /\ response' = NoResponse
    /\ offered' = {}
    /\ UNCHANGED <<history, passing, lastId, gpt_enabled, enabled, cursor,
                   last_error, txns, queue, inflight, proc, catchup, retry>>
    /\ UNCHANGED <<running, input, output, session, refs, writeback>>

\* self.retry(): the task is scheduled again until max_retries is used up.
Retry(job) ==
    IF job.tries < MaxRetries
    THEN [job EXCEPT !.pc = "retry", !.tries = @ + 1]
    ELSE [job EXCEPT !.pc = "end"]

\* The rest of process_receipt_task.  A parsed record reaches the probe of
\* Transaction.fingerprint, an attribute the model class does not have: the
\* AttributeError goes to the handler, which marks the row found by task id
\* failed and retries.
TaskFinish(j, outcome) ==
    /\ jobs[j].pc = "running"
    /\ LET k == jobs[j].key
       IN IF HasRow(txns, k)
          THEN /\ tasks' = IF jobs[j].tracked
                           THEN [tasks EXCEPT ![k].status = "done",
                                              ![k].txn = RowId(txns, k)]
                           ELSE tasks
               /\ jobs' = [jobs EXCEPT ![j].pc = "end"]
          ELSE IF outcome = "unparsed"
          THEN /\ tasks' = IF jobs[j].tracked
                           THEN [tasks EXCEPT ![k].status = "failed",
                                              ![k].err = ErrParseNone]
                           ELSE tasks
               /\ jobs' = [jobs EXCEPT ![j].pc = "end"]
          ELSE IF outcome = "download_failed"
          THEN /\ tasks' = IF jobs[j].tracked \/ Tracking(j)
                           THEN [tasks EXCEPT ![k].status = "failed",
                                              ![k].err = ErrDownload]
                           ELSE tasks
               /\ jobs' = [jobs EXCEPT ![j] = Retry(@)]
          ELSE /\ tasks' = IF Tracking(j)
                           THEN [tasks EXCEPT ![k].status = "failed",
                                              ![k].err = ErrAttribute]
                           ELSE tasks
               /\ jobs' = [jobs EXCEPT ![j] = Retry(@)]
    /\ response' = NoResponse
    /\ offered' = {}
    /\ UNCHANGED <<history, passing, lastId, gpt_enabled, enabled, cursor,
                   last_error, txns, queue, inflight, proc, catchup, retry>>
    /\ UNCHANGED <<running, input, output, session, refs, writeback>>

\* ------------------------------------------------------- sign of the amount
\* Amounts are counted in thousandths of a currency unit; the amount column
\* is Numeric(18, 2) and the database rounds to hundredths, half away from
\* zero.  RoundCents gives the stored value in hundredths.
Abs(x) == IF x < 0 THEN 0 - x ELSE x

RoundCents(x) ==
    IF x < 0 THEN 0 - ((Abs(x) + 5) \div 10) ELSE (x + 5) \div 10

TransactionTypes == {"DEBIT", "CREDIT", "CONVERSION", "REVERSAL"}

\* What the text of a receipt can contain for infer_transaction_type.
TypeMarks == {"reversal", "conversion", "plus", "minus", "credit", "debit"}

\* infer_transaction_type(raw_type, raw_text): the type string is searched
\* together with the text.
InferTransactionType(raw_type, marks) ==
    IF "reversal" \in marks \/ raw_type = "REVERSAL" THEN "REVERSAL"
    ELSE IF "conversion" \in marks \/ raw_type = "CONVERSION" THEN "CONVERSION"
    ELSE IF "plus" \in marks THEN "CREDIT"
    ELSE IF "minus" \in marks THEN "DEBIT"
    ELSE IF "credit" \in marks \/ raw_type = "CREDIT" THEN "CREDIT"
    ELSE "DEBIT"

\* A parsed text record: the amount as the parser returned it, the type the
\* parser gave ("" when it gave none), the marks of the text.
ParsedRecords ==
    [kind : {"record"}, amount : (0 - MaxAmount)..MaxAmount,
     raw_type : TransactionTypes \cup {""}, marks : SUBSET TypeMarks]

\* _post_validate_and_enrich, then the sign and the insert of
\* process_tdlib_message: the row as the table holds it.
StoreRow(rec) ==
    IF rec.amount = 0 \/ rec.raw_type = "" THEN [kind |-> "rejected"]
    ELSE LET txn_type == InferTransactionType(rec.raw_type, rec.marks)
             store_amount == IF txn_type = "DEBIT"
                             THEN 0 - Abs(Abs(rec.amount))
                             ELSE Abs(Abs(rec.amount))
         IN [kind |-> "row", type |-> txn_type, amount |-> RoundCents(store_amount)]

ApplyStoreRow ==
    /\ input.kind = "record"
    /\ output = NoOutput
    /\ output' = StoreRow(input)
    /\ UNCHANGED <<history, passing, lastId, gpt_enabled, enabled, cursor,
                   last_error, txns, queue, inflight, proc, catchup, retry,
                   response, offered, running, tasks, jobs, input, session, refs, writeback>>

\* ------------------------------------------------------------------ filter
\* The vocabulary of the texts and keyword lists: one default receipt keyword
\* and one other word, each in two spellings.  A text is the set of the words
\* it contains together with its length after strip().
Words == {"uzs", "UZS", "bonus", "Bonus"}

\* str.lower() on the vocabulary.
Lower(w) == IF w = "UZS" THEN "uzs" ELSE IF w = "Bonus" THEN "bonus" ELSE w

DEFAULT_RECEIPT_KEYWORDS == {"uzs"}

GROUP_CHAT_TYPES == {"group", "supergroup", "channel"}

\* Values of monitored_bot_chats.filter_keywords.
RawKeywords ==
    {"null", "", "[]", "[\"Bonus\"]", "\"uzs\"", "Bonus, uzs", " , "}

\* _parse_keywords: a JSON list, a JSON string, or a comma-separated list.
ParseKeywords(raw_value) ==
    IF raw_value = "[\"Bonus\"]" THEN {"Bonus"}
    ELSE IF raw_value = "\"uzs\"" THEN {"uzs"}
    ELSE IF raw_value = "Bonus, uzs" THEN {"Bonus", "uzs"}
    ELSE {}

\* The formatted messages of _format_message (they carry no "content" key):
\* mime type of the document, text, sign of the chat id.
Messages ==
    { msg \in [mime : {"none", "application/pdf", "image/png"},
               words : SUBSET Words, len : 0..MaxTextLen, chat_id : {0 - 1, 1}] :
          msg.len >= 3 * Cardinality(msg.words) }

Monitors ==
    [chat_type : {"private"} \cup GROUP_CHAT_TYPES,
     filter_mode : {"all", "whitelist", "blacklist"},
     filter_keywords : RawKeywords]

FilterInputs == [kind : {"message"}, monitor : Monitors, message : Messages]

\* The PDF test placed after the empty-text test.
IsPdfWithCaption(message) == message.mime = "application/pdf" /\ message.len > 0

IsPdf(message) == message.mime = "application/pdf"

TextLower(message) == {Lower(w) : w \in message.words}

IsGroupChat(monitor, message) ==
    monitor.chat_type \in GROUP_CHAT_TYPES \/ message.chat_id < 0

\* The default keyword test without the length gate.
DefaultHitAnyLength(message) ==
    \E kw \in DEFAULT_RECEIPT_KEYWORDS : kw \in TextLower(message)

DefaultHit(message) ==
    /\ message.len >= MIN_RECEIPT_TEXT_LENGTH
    /\ \E kw \in DEFAULT_RECEIPT_KEYWORDS : kw \in TextLower(message)

HasKeyword(keywords, message) ==
    \E kw \in keywords : Lower(kw) \in TextLower(message)

\* _should_process_message
ShouldProcess(monitor, message) ==
    LET is_group_chat == IsGroupChat(monitor, message)
        default_hit == DefaultHit(message)
        keywords == ParseKeywords(monitor.filter_keywords)
        has_keyword == HasKeyword(keywords, message)
    IN IF IsPdf(message) THEN TRUE
       ELSE IF message.len = 0 THEN FALSE
       ELSE IF is_group_chat /\ ~default_hit THEN FALSE
       ELSE IF monitor.filter_mode = "blacklist"
       THEN IF keywords = {} THEN default_hit \/ ~is_group_chat ELSE ~has_keyword
       ELSE IF monitor.filter_mode = "whitelist"
       THEN has_keyword /\ (default_hit \/ ~is_group_chat)
       ELSE IF keywords = {} THEN default_hit \/ ~is_group_chat
       ELSE has_keyword

ApplyFilter ==
    /\ input.kind = "message"
    /\ output = NoOutput
    /\ output' = [kind |-> "filter",
                  pass |-> ShouldProcess(input.monitor, input.message)]
    /\ UNCHANGED <<history, passing, lastId, gpt_enabled, enabled, cursor,
                   last_error, txns, queue, inflight, proc, catchup, retry,
                   response, offered, running, tasks, jobs, input, session, refs, writeback>>

\* ------------------------------------------------------------ PDF cascade
\* A downloaded PDF as the parsers see it: whether the message has a caption,
\* the length of the extracted text, the confidence of the regex record (0:
\* no dialect matches), the confidence of the text model's record (-1: no
\* record), whether the pages render and whether the vision model returns a
\* record.  Confidences are in hundredths.
PdfInputs ==
    [kind : {"pdf"}, caption : BOOLEAN, extracted_len : 0..MaxExtractedLen,
     regex_conf : {0, 90, 95}, gpt_conf : {0 - 1, 60, 75, 90},
     render_ok : BOOLEAN, vision_record : BOOLEAN]

NoRecord == [method |-> "none", conf |-> 0]

\* ParserOrchestrator.process on a non-blank text.
Orchestrate(regex_conf, gpt_conf, gpt) ==
    IF regex_conf >= confidence_threshold
    THEN [method |-> "REGEX_SMS", conf |-> regex_conf]
    ELSE IF gpt /\ gpt_conf >= 0 THEN [method |-> "GPT", conf |-> gpt_conf]
    ELSE NoRecord

PdfOutcome(rec, parser_input, vision_used, invoked, err) ==
    [kind |-> "pdf", method |-> rec.method, parser_input |-> parser_input,
     vision_used |-> vision_used, vision_invoked |-> invoked, err |-> err]

\* The PDF branch of process_tdlib_message after the download.
ProcessPdf(pdf, gpt) ==
    LET parser_input == (IF pdf.caption THEN {"caption"} ELSE {})
                        \cup (IF pdf.extracted_len > 0 THEN {"extracted"} ELSE {})
        rec == IF pdf.extracted_len >= MinExtractedLen
               THEN Orchestrate(pdf.regex_conf, pdf.gpt_conf, gpt)
               ELSE NoRecord
        parsed == IF rec = NoRecord \/ rec.conf < MinTextConfidence
                  THEN NoRecord ELSE rec
    IN IF parsed # NoRecord
       THEN PdfOutcome(parsed, parser_input, FALSE, FALSE, NoError)
       ELSE IF ~pdf.render_ok
       THEN PdfOutcome(NoRecord, parser_input, TRUE, FALSE, ErrRender)
       ELSE IF ~gpt
       THEN PdfOutcome(NoRecord, parser_input, TRUE, FALSE, ErrVision)
       ELSE IF ~pdf.vision_record
       THEN PdfOutcome(NoRecord, parser_input, TRUE, TRUE, ErrVisionParse)
       ELSE PdfOutcome([method |-> "GPT_VISION", conf |-> 0], parser_input,
                       TRUE, TRUE, NoError)

ApplyProcessPdf ==
    /\ input.kind = "pdf"
    /\ output = NoOutput
    /\ output' = ProcessPdf(input, gpt_enabled)
    /\ UNCHANGED <<history, passing, lastId, gpt_enabled, enabled, cursor,
                   last_error, txns, queue, inflight, proc, catchup, retry,
                   response, offered, running, tasks, jobs, input, session, refs, writeback>>

\* ------------------------------------------------------- TDLib session manager
\* Everything but the library runs on the asyncio loop: a coroutine of the
\* manager is atomic between two awaits, and the receiver thread only posts
\* _handle_incoming calls to the loop.
AuthSteps ==
    {"setAuthenticationPhoneNumber", "checkAuthenticationCode",
     "checkAuthenticationPassword", "resendAuthenticationCode", "logOut"}

\* The methods a caller may run on the manager.
ManagerOps == AuthSteps \cup {"get_auth_state"}

\* What the synchronous getAuthorizationState of start() may answer.
StartStates == {"authorizationStateWaitTdlibParameters", "error"}

\* The states the library announces with updateAuthorizationState.
PushedStates == {"authorizationStateWaitCode", "authorizationStateReady"}

\* uuid.uuid4(): a value no earlier call returned.
Uuid4(s) == s.uuid + 1

\* client.send of a payload written without "@extra" (extra = 0).
ClientSend(s, type, extra) ==
    [s EXCEPT !.sent = @ \cup {[type |-> type, extra |-> extra]}]

\* _send_request up to its await: a token, a future registered under it for
\* the calling coroutine r, the payload sent with the token.
SendRequest(s, r, type) ==
    LET extra == Uuid4(s)
        registered == [s EXCEPT !.uuid = @ + 1,
                                !.pending = (extra :> r) @@ @,
                                !.req[r].token = extra,
                                !.req[r].reply = "none"]
    IN ClientSend(registered, type, extra)

\* _handle_auth_state_change for the states that send nothing.
HandleAuthStateChange(s, raw_state) ==
    IF raw_state = "authorizationStateReady"
    THEN [s EXCEPT !.params_applied = TRUE]
    ELSE s

\* The end of a method: its caller is free again, ret is what it got.
Return(s, r, ret) ==
    [s EXCEPT !.req[r] = NoCall,
              !.event = [kind |-> "return", r |-> r, op |-> s.req[r].op,
                         ret |-> ret, extra |-> 0]]

\* The method op of caller r once start() has returned: an auth step sends
\* its request, get_auth_state reads the state and, when ready with no cached
\* user, calls _get_me, which sends getMe.
AfterStart(s, r, op) ==
    IF op \in AuthSteps
    THEN [SendRequest(s, r, op) EXCEPT !.req[r].pc = "await"]
    ELSE IF s.auth = "authorizationStateReady" /\ s.me # "user"
         THEN [SendRequest(s, r, "getMe") EXCEPT !.req[r].pc = "await"]
         ELSE Return(s, r, "state")

\* The last statements of start(): _handle_auth_state_change is over, the
\* current state is asked for once more, with a bare client.send.
StartTail(s, r) ==
    AfterStart(ClientSend(s, "getAuthorizationState", 0), r, s.req[r].op)

\* A caller invokes op.  With no client, start() runs first: client and
\* receiver thread are created, the state is read, and
\* _apply_tdlib_parameters awaits its request.
Call(r, op, state_info) ==
    /\ session.req[r].pc = "idle"
    /\ session.uuid < MaxTokens
    /\ LET called == [session EXCEPT !.event = NoEvent,
                                     !.req[r] = [NoCall EXCEPT !.op = op]]
           started == [called EXCEPT !.client = TRUE, !.receiver = TRUE,
                                     !.auth = state_info]
       IN session' =
            IF session.client THEN AfterStart(called, r, op)
            ELSE [SendRequest(started, r, "setTdlibParameters")
                     EXCEPT !.req[r].pc = "params"]
    /\ offered' = {}
    /\ UNCHANGED <<history, passing, lastId, gpt_enabled, enabled, cursor,
                   last_error, txns, queue, inflight, proc, catchup, retry,
                   response, running, tasks, jobs, input, output, refs,
                   writeback>>

\* The library answers a request: an object carrying the request's "@extra"
\* (none for the bare getAuthorizationState), an error or a result.
Answers(type) ==
    IF type = "getMe" THEN {"user", "error"}
    ELSE IF type = "getAuthorizationState" THEN {"authorizationState"}
    ELSE {"ok", "error"}

LibReply(request, type) ==
    /\ request \in session.sent \ session.answered
    /\ type \in Answers(request.type)
    /\ session' = [session EXCEPT
           !.event = NoEvent,
           !.answered = @ \cup {request},
           !.inbox = @ \cup {[type |-> type, extra |-> request.extra,
                              state |-> "none"]}]
    /\ offered' = {}
    /\ UNCHANGED <<history, passing, lastId, gpt_enabled, enabled, cursor,
                   last_error, txns, queue, inflight, proc, catchup, retry,
                   response, running, tasks, jobs, input, output, refs,
                   writeback>>

\* The library pushes updateAuthorizationState.
LibUpdate(state) ==
    /\ session.client
    /\ session.pushed < MaxUpdates
    /\ session' = [session EXCEPT
           !.event = NoEvent,
           !.pushed = @ + 1,
           !.inbox = @ \cup {[type |-> "updateAuthorizationState",
                              extra |-> 0, state |-> state]}]
    /\ offered' = {}
    /\ UNCHANGED <<history, passing, lastId, gpt_enabled, enabled, cursor,
                   last_error, txns, queue, inflight, proc, catchup, retry,
                   response, running, tasks, jobs, input, output, refs,
                   writeback>>

\* _process_update: only updateAuthorizationState changes the session here.
ProcessUpdate(s, update) ==
    LET seen == [s EXCEPT !.event = [kind |-> "update", r |-> 0,
                                     op |-> update.type, ret |-> "none",
                                     extra |-> update.extra]]
    IN IF update.type = "updateAuthorizationState"
       THEN HandleAuthStateChange([seen EXCEPT !.auth = update.state],
                                  update.state)
       ELSE seen

\* A pop that leaves the token in the map.
KeepToken(pending, extra) == pending

\* _pending.pop(extra): the map without the token.
Pop(pending, extra) ==
    [t \in DOMAIN pending \ {extra} |-> pending[t]]

\* A lookup that takes the oldest pending token for any message with a token.
LookupOldest(pending, update) ==
    IF update.extra # 0 /\ DOMAIN pending # {}
    THEN CHOOSE t \in DOMAIN pending : \A u \in DOMAIN pending : t <= u
    ELSE 0

\* The key _handle_incoming pops for a message: its "@extra" when that is a
\* pending token, none (0) otherwise.
Lookup(pending, update) ==
    IF update.extra # 0 /\ update.extra \in DOMAIN pending THEN update.extra
    ELSE 0

\* _handle_incoming: a message whose "@extra" is a pending token resolves the
\* future registered under it and goes no further; any other message goes to
\* _process_update.
HandleIncoming(update) ==
    /\ session.receiver
    /\ update \in session.inbox
    /\ LET taken == [session EXCEPT !.inbox = @ \ {update}, !.event = NoEvent]
           extra == Lookup(taken.pending, update)
       IN session' =
            IF extra # 0
            THEN [taken EXCEPT
                     !.pending = Pop(@, extra),
                     !.req[taken.pending[extra]].reply = update.type,
                     !.event = [kind |-> "resolve", r |-> taken.pending[extra],
                                op |-> update.type, ret |-> "none",
                                extra |-> update.extra]]
            ELSE ProcessUpdate(taken, update)
    /\ offered' = {}
    /\ UNCHANGED <<history, passing, lastId, gpt_enabled, enabled, cursor,
                   last_error, txns, queue, inflight, proc, catchup, retry,
                   response, running, tasks, jobs, input, output, refs,
                   writeback>>

\* asyncio.wait_for gives up: TimeoutError in the awaiting coroutine, and the
\* finally clause of _send_request removes its token.
Awaiting(s, r) == s.req[r].pc # "idle" /\ s.req[r].reply = "none"

Timeout(r) ==
    /\ Awaiting(session, r)
    /\ session' = [session EXCEPT
           !.event = NoEvent,
           !.pending = Pop(@, session.req[r].token),
           !.req[r].reply = "timeout"]
    /\ offered' = {}
    /\ UNCHANGED <<history, passing, lastId, gpt_enabled, enabled, cursor,
                   last_error, txns, queue, inflight, proc, catchup, retry,
                   response, running, tasks, jobs, input, output, refs,
                   writeback>>

\* What an auth step gives its caller: the reply itself, whatever its
\* "@type"; only a timeout raises.
StepResult(reply) ==
    IF reply = "timeout" THEN "raised" ELSE reply

\* The awaiting coroutine goes on with the outcome of its future.
\*   params, params2: _apply_tdlib_parameters inside start(), then
\*     _handle_auth_state_change, which for WaitTdlibParameters applies the
\*     parameters once more, then the tail of start();
\*   await: the request of an auth step, or the getMe of get_auth_state.
Resume(r) ==
    /\ session.req[r].pc # "idle"
    /\ session.req[r].reply # "none"
    /\ session.req[r].pc \in {"params", "params2"} => session.uuid < MaxTokens
    /\ LET call == session.req[r]
           resumed == [session EXCEPT !.event = NoEvent]
           applied == [resumed EXCEPT
                          !.params_applied = call.reply # "timeout"]
       IN session' =
            CASE call.pc = "params" ->
                   IF applied.auth = "authorizationStateWaitTdlibParameters"
                   THEN [SendRequest([applied EXCEPT !.params_applied = FALSE],
                                     r, "setTdlibParameters")
                            EXCEPT !.req[r].pc = "params2"]
                   ELSE StartTail(HandleAuthStateChange(applied, applied.auth), r)
              [] call.pc = "params2" -> StartTail(applied, r)
              [] OTHER ->
                   IF call.op \in AuthSteps
                   THEN Return(resumed, r, StepResult(call.reply))
                   ELSE Return([resumed EXCEPT !.me =
                                   IF call.reply = "user" THEN "user" ELSE @],
                               r, "state")
    /\ offered' = {}
    /\ UNCHANGED <<history, passing, lastId, gpt_enabled, enabled, cursor,
                   last_error, txns, queue, inflight, proc, catchup, retry,
                   response, running, tasks, jobs, input, output, refs,
                   writeback>>

\* ------------------------------------------------------------ text cascade
\* RegexParser.parse tries four dialects in this order; each is skipped or
\* returns nothing ("none"), returns a record with its own confidence, or
\* raises (normalize_amount and parse_date raise ValueError).
Dialects == <<"REGEX_CARDXABAR", "REGEX_HUMO", "REGEX_SEMICOLON", "REGEX_SMS">>

\* parsing_confidence of the four dialects, in hundredths.
DialectConfidence == <<93, 95, 92, 90>>

\* A text as the parsers see it: blank or not, what each dialect does with
\* it, what the text model does with it, and whether the amount of the
\* record is zero.
Texts ==
    [kind : {"text"}, blank : BOOLEAN,
     dialect : [DOMAIN Dialects -> {"none", "record", "raise"}],
     gpt : {"none", "record", "raise"}, zero_amount : BOOLEAN]

\* The dialects parse calls: all up to the first that returns or raises.
Called(text) ==
    {d \in DOMAIN Dialects : \A e \in 1..(d - 1) : text.dialect[e] = "none"}

\* RegexParser.parse: the record of the first dialect that returns one (its
\* index), 0 for no record, -1 when a dialect raised.
RegexParse(text) ==
    LET ended == {d \in Called(text) : text.dialect[d] # "none"}
    IN IF ended = {} THEN 0
       ELSE LET d == CHOOSE x \in ended : TRUE
            IN IF text.dialect[d] = "record" THEN d ELSE 0 - 1

\* A post-validation that lets every record pass.
PostValidateAlways(text) == TRUE

\* _post_validate_and_enrich raises for a record without amount (zero
\* counts, by truth value), date or type; the parsers always set the last two.
PostValidate(text) == ~text.zero_amount

\* An exception on its way out of a step.
Raised == [method |-> "raised", conf |-> 0]

\* try ... except Exception: the step gives None instead of raising.
Try(result) == IF result = Raised THEN NoRecord ELSE result

\* ParserOrchestrator.process, steps 1 to 3: the regex parser with the
\* threshold, the text model when one is configured, the post-validation,
\* each inside its try.
Process(text, gpt) ==
    LET d == RegexParse(text)
        regex == Try(IF d < 0 THEN Raised
                     ELSE IF d > 0 /\ DialectConfidence[d] >= confidence_threshold
                     THEN [method |-> Dialects[d], conf |-> DialectConfidence[d]]
                     ELSE NoRecord)
        parsed_data ==
            IF regex # NoRecord THEN regex
            ELSE IF gpt
            THEN Try(IF text.gpt = "raise" THEN Raised
                     ELSE IF text.gpt = "record" THEN [method |-> "GPT", conf |-> 0]
                     ELSE NoRecord)
            ELSE NoRecord
    IN IF text.blank THEN NoRecord
       ELSE IF parsed_data \in {NoRecord, Raised} THEN parsed_data
       ELSE Try(IF PostValidate(text) THEN parsed_data ELSE Raised)

ApplyProcess ==
    /\ input.kind = "text"
    /\ output = NoOutput
    /\ output' = [kind |-> "parsed",
                  raised |-> Process(input, gpt_enabled) = Raised,
                  result |-> Process(input, gpt_enabled)]
    /\ UNCHANGED <<history, passing, lastId, gpt_enabled, enabled, cursor,
                   last_error, txns, queue, inflight, proc, catchup, retry,
                   response, offered, running, tasks, jobs, input, session,
                   refs, writeback>>

\* ------------------------------------------------------------ persistence
\* One processing of one message, as a function: the table before it, the
\* address, and what the fetch and the parsers deliver.
PersistInputs ==
    [kind : {"reply"}, key : Keys, reply : Replies(Contents),
     rows : {<<>>, <<[chat |-> 1, msg |-> 1, content |-> 1]>>}]

ApplyProcessReply ==
    /\ input.kind = "reply"
    /\ output = NoOutput
    /\ output' = [kind |-> "processed",
                  outcome |-> ProcessReply(input.rows, input.key, input.reply,
                                           gpt_enabled)]
    /\ UNCHANGED <<history, passing, lastId, gpt_enabled, enabled, cursor,
                   last_error, txns, queue, inflight, proc, catchup, retry,
                   response, offered, running, tasks, jobs, input, session,
                   refs, writeback>>

\* -------------------------------------------------------- operator resolver
\* Operator strings are sequences over a small alphabet: a letter in both
\* cases, a digit and a punctuation mark.
Chars == {"P", "p", "2", "-"}

RECURSIVE Strings(_)
Strings(n) ==
    IF n = 0 THEN {<<>>}
    ELSE LET shorter == Strings(n - 1)
         IN shorter \cup {Append(s, c) : s \in {t \in shorter : Len(t) = n - 1},
                                         c \in Chars}

\* str.upper() on one character.
Upper(c) == IF c = "p" THEN "P" ELSE c

StrUpper(s) == [i \in DOMAIN s |-> Upper(s[i])]

\* " ".join(s.split()): runs of blanks become one, none at either end.
RECURSIVE Squeeze(_)
Squeeze(s) ==
    IF s = <<>> THEN <<>>
    ELSE LET rest == Squeeze(Tail(s))
         IN IF Head(s) # " " THEN <<Head(s)>> \o rest
            ELSE IF rest = <<>> \/ Head(rest) = " " THEN rest
            ELSE <<" ">> \o rest

Strip(s) == IF s # <<>> /\ Head(s) = " " THEN Tail(s) ELSE s

\* OperatorMapper.normalize_operator: upper case, every character outside
\* [A-Z0-9 ] becomes a blank, blanks are collapsed and trimmed.
normalize_operator(value) ==
    LET upper == StrUpper(value)
        blanked == [i \in DOMAIN upper |->
                       IF upper[i] \in {"P", "2"} THEN upper[i] ELSE " "]
    IN Strip(Squeeze(blanked))

\* The rows of a query that names no order, in the order the database
\* happens to return them: any permutation of the matching ids.
ScanOrders(S) ==
    {f \in [1..Cardinality(S) -> S] : \A i, j \in DOMAIN f : f[i] = f[j] => i = j}

\* OperatorMapper.refresh_cache: the active rows with a name and an
\* application, as (id, normalized name, application, is_p2p), in the order
\* the query returned them.
ActiveIds(rows) ==
    {i \in DOMAIN rows : /\ rows[i].is_active
                         /\ rows[i].operator_name # <<>>
                         /\ rows[i].application_name # ""}

CacheOf(rows, order) ==
    [n \in DOMAIN order |->
        [id |-> order[n],
         pattern |-> normalize_operator(rows[order[n]].operator_name),
         app |-> rows[order[n]].application_name,
         is_p2p |-> rows[order[n]].is_p2p]]

NoMatch == [match_type |-> "NONE", reference_id |-> 0, application_name |-> "",
            is_p2p |-> FALSE]

MatchOf(item, match_type) ==
    [match_type |-> match_type, reference_id |-> item.id,
     application_name |-> item.app, is_p2p |-> item.is_p2p]

\* The loop of map_operator_details from position n on: the first equal
\* pattern ends it, a contained pattern replaces the best one only when it is
\* strictly longer.
RECURSIVE ScanCache(_, _, _, _)
ScanCache(cache, n, normalized_input, best) ==
    IF n > Len(cache) THEN best
    ELSE LET item == cache[n]
         IN IF item.pattern = <<>>
            THEN ScanCache(cache, n + 1, normalized_input, best)
            ELSE IF normalized_input = item.pattern
            THEN [exact |-> n, sub |-> best.sub]
            ELSE IF Contains(normalized_input, item.pattern)
                    /\ (best.sub = 0 \/ Len(item.pattern) > Len(cache[best.sub].pattern))
            THEN ScanCache(cache, n + 1, normalized_input,
                           [exact |-> 0, sub |-> n])
            ELSE ScanCache(cache, n + 1, normalized_input, best)

\* OperatorMapper.map_operator_details over a cache.
map_operator_details(cache, operator_raw) ==
    LET normalized_input == normalize_operator(operator_raw)
        found == ScanCache(cache, 1, normalized_input, [exact |-> 0, sub |-> 0])
    IN IF operator_raw = <<>> \/ normalized_input = <<>> THEN NoMatch
       ELSE IF found.exact # 0 THEN MatchOf(cache[found.exact], "EXACT")
       ELSE IF found.sub # 0 THEN MatchOf(cache[found.sub], "SUBSTRING")
       ELSE NoMatch

\* The dictionaries and operators of the mapper specification.
OperatorNames == Strings(MaxNameLen) \ {<<>>}

RefRows ==
    [operator_name : OperatorNames, application_name : {"app"},
     is_p2p : {FALSE}, is_active : BOOLEAN]

\* The tables the admin routes build: they refuse a second row with the name
\* and application of an existing one.
Dictionaries ==
    {rows \in UNION {[1..n -> RefRows] : n \in 0..MaxRefs} :
        \A i, j \in DOMAIN rows :
           rows[i].operator_name = rows[j].operator_name => i = j}

MapperInputs(rows) ==
    [kind : {"operator"}, operator_raw : Strings(MaxOperatorLen),
     order : ScanOrders(ActiveIds(rows))]

\* A mapper is built on the table (refresh_cache) and asked for one operator.
ApplyMapOperator ==
    /\ input.kind = "operator"
    /\ output = NoOutput
    /\ output' = [kind |-> "match",
                  match |-> map_operator_details(CacheOf(refs, input.order),
                                                 input.operator_raw)]
    /\ UNCHANGED <<history, passing, lastId, gpt_enabled, enabled, cursor,
                   last_error, txns, queue, inflight, proc, catchup, retry,
                   response, offered, running, tasks, jobs, input, session,
                   refs, writeback>>

\* What resolve_application gives: nothing (not configured, an exception, an
\* empty answer), or an application with a confidence in hundredths.
NoAnswer == [application_name |-> "", confidence |-> 0, is_p2p |-> FALSE]

AiAnswers ==
    {NoAnswer} \cup
    [application_name : {"Unknown", "app2"},
     confidence : {MinResolveConfidence - 1, MinResolveConfidence},
     is_p2p : BOOLEAN]

\* An acceptance that does not look at the confidence.
AiAcceptedAnyConfidence(ai) ==
    ai.application_name # "" /\ ai.application_name # "Unknown"

\* The condition under which process takes the model's answer.
AiAccepted(ai) ==
    /\ ai.application_name # ""
    /\ ai.application_name # "Unknown"
    /\ ai.confidence >= MinResolveConfidence

\* 'P2P' in operator_raw.upper()
HasP2P(operator_raw) == Contains(StrUpper(operator_raw), <<"P", "2", "P">>)

\* application_mapped of a record nobody mapped.
None == "None"

\* Step 4 of ParserOrchestrator.process on a record that passed
\* _post_validate_and_enrich (no parser sets is_p2p, so the record carries
\* the heuristic value): the dictionary, then the model, then the heuristic.
ResolveApplication(cache, operator_raw, gpt, ai) ==
    LET enriched == [application_mapped |-> None,
                     is_p2p |-> HasP2P(operator_raw), method |-> "NONE"]
        match == map_operator_details(cache, operator_raw)
    IN IF operator_raw = <<>> THEN enriched
       ELSE IF match # NoMatch
       THEN [application_mapped |-> match.application_name,
             is_p2p |-> match.is_p2p, method |-> "DICT"]
       ELSE IF gpt
       THEN IF AiAccepted(ai)
            THEN [application_mapped |-> ai.application_name,
                  is_p2p |-> ai.is_p2p, method |-> "AI"]
            ELSE [application_mapped |-> None,
                  is_p2p |-> HasP2P(operator_raw), method |-> "HEURISTIC"]
       ELSE [enriched EXCEPT !.method = "HEURISTIC"]

ResolverInputs(rows) ==
    [kind : {"resolve"}, operator_raw : Strings(MaxOperatorLen),
     order : ScanOrders(ActiveIds(rows)), ai : AiAnswers]

ApplyResolve ==
    /\ input.kind = "resolve"
    /\ output = NoOutput
    /\ output' = [kind |-> "resolved",
                  record |-> ResolveApplication(CacheOf(refs, input.order),
                                                input.operator_raw,
                                                gpt_enabled, input.ai)]
    /\ UNCHANGED <<history, passing, lastId, gpt_enabled, enabled, cursor,
                   last_error, txns, queue, inflight, proc, catchup, retry,
                   response, offered, running, tasks, jobs, input, session,
                   refs, writeback>>

\* ------------------------------------------- suggestion write-back (Celery)
\* process_receipt_task between parsing and the insert of the transaction: a
\* record the model mapped carries operator_reference_suggestion; the task
\* looks for a row with the normalized name and the application and, finding
\* none, adds one and commits.  Celery workers are processes: the query and
\* the commit of one task are separate statements to the database, and
\* statements of other tasks come between them.
Suggestions ==
    [operator_name : {<<"p">>, <<"P">>, <<"2">>, <<"-">>},
     application_name : {"app", "app2"}, is_p2p : {FALSE}]

\* A write-back that activates the row it suggests.
SuggestedRowActive(normalized_operator, suggestion) ==
    [operator_name |-> normalized_operator,
     application_name |-> suggestion.application_name,
     is_p2p |-> suggestion.is_p2p, is_active |-> TRUE]

\* The row the task adds.
SuggestedRow(normalized_operator, suggestion) ==
    [operator_name |-> normalized_operator,
     application_name |-> suggestion.application_name,
     is_p2p |-> suggestion.is_p2p, is_active |-> FALSE]

\* existing_ref: some row has this name and application.
ExistingRef(rows, normalized_operator, application_name) ==
    \E i \in DOMAIN rows :
        /\ rows[i].operator_name = normalized_operator
        /\ rows[i].application_name = application_name

\* The task of worker w reaches the write-back with a suggestion and runs
\* the query.
WritebackProbe(w, suggestion) ==
    /\ writeback[w].pc = "idle"
    /\ Len(refs) < MaxRefs
    /\ LET normalized_operator == normalize_operator(suggestion.operator_name)
       IN writeback' =
            IF normalized_operator = <<>>
               \/ ExistingRef(refs, normalized_operator,
                              suggestion.application_name)
            THEN writeback
            ELSE [writeback EXCEPT ![w] =
                     [pc |-> "add",
                      row |-> SuggestedRow(normalized_operator, suggestion)]]
    /\ offered' = {}
    /\ UNCHANGED <<history, passing, lastId, gpt_enabled, enabled, cursor,
                   last_error, txns, queue, inflight, proc, catchup, retry,
                   response, running, tasks, jobs, input, output, session,
                   refs>>

\* db.add(new_ref); db.commit()
WritebackCommit(w) ==
    /\ writeback[w].pc = "add"
    /\ refs' = Append(refs, writeback[w].row)
    /\ writeback' = [writeback EXCEPT ![w] = NoWriteback]
    /\ offered' = {}
    /\ UNCHANGED <<history, passing, lastId, gpt_enabled, enabled, cursor,
                   last_error, txns, queue, inflight, proc, catchup, retry,
                   response, running, tasks, jobs, input, output, session>>

\* ------------------------------------------------------------ fingerprint
\* Strings are sequences of one-character strings.  A Decimal keeps its sign,
\* its coefficient and its exponent: 1 and 1.0 are equal and print
\* differently.
DigitChars == <<"0", "1", "2", "3", "4", "5", "6", "7", "8", "9">>

RECURSIVE Digits(_)
Digits(n) ==
    IF n < 10 THEN <<DigitChars[n + 1]>>
    ELSE Append(Digits(n \div 10), DigitChars[(n % 10) + 1])

Zeros(n) == [i \in 1..n |-> "0"]

\* str(Decimal) of a non-negative Decimal with the given decimal places.
DecimalStr(coef, places) ==
    LET ds == Digits(coef)
        padded == IF Len(ds) <= places
                  THEN Zeros(places + 1 - Len(ds)) \o ds ELSE ds
        cut == Len(padded) - places
    IN IF places = 0 THEN ds
       ELSE SubSeq(padded, 1, cut) \o <<".">> \o SubSeq(padded, cut + 1, Len(padded))

Decimals == [neg : BOOLEAN, coef : 0..MaxCoefficient, places : 0..MaxPlaces]

\* Naive datetimes of one hour: the minute and the second.
Datetimes == [minute : {0, 1}, second : {0, 59}]

\* strftime("%Y-%m-%d %H:%M") within that hour.
DateStr(t) == <<"0", DigitChars[t.minute + 1]>>

\* Card strings as the parsers give them: four digits, or a longer masked
\* number.
Cards == {<<"1", "2", "3", "4">>, <<"5", "1", "2", "3", "4">>,
          <<"4", "3", "2", "1">>}

\* str(card_last4)[-4:]
LastFour(card) ==
    IF Len(card) <= 4 THEN card ELSE SubSeq(card, Len(card) - 3, Len(card))

\* compute_fingerprint up to the hash: the string that is digested.
compute_fingerprint(amount, transaction_date, card_last4) ==
    LET amount_str == IF amount.coef # 0
                      THEN DecimalStr(amount.coef, amount.places) ELSE <<"0">>
        date_str == DateStr(transaction_date)
        card_str == IF card_last4 # <<>> THEN LastFour(card_last4)
                    ELSE <<"0", "0", "0", "0">>
    IN amount_str \o <<"|">> \o date_str \o <<"|">> \o card_str

FingerprintArgs == [amount : Decimals, date : Datetimes, card : Cards]

ApplyFingerprint ==
    /\ input.kind = "fingerprint"
    /\ output = NoOutput
    /\ output' = [kind |-> "fingerprint",
                  a |-> compute_fingerprint(input.a.amount, input.a.date, input.a.card),
                  b |-> compute_fingerprint(input.b.amount, input.b.date, input.b.card)]
    /\ UNCHANGED <<history, passing, lastId, gpt_enabled, enabled, cursor,
                   last_error, txns, queue, inflight, proc, catchup, retry,
                   response, offered, running, tasks, jobs, input, session, refs, writeback>>

\* ------------------------------------------------------- normalize_amount
\* Amount strings: a zero and a non-zero digit, both separators, a space, a
\* non-breaking space and a character that is none of these.
Nbsp == "nbsp"

AmountChars == {"0", "1", ".", ",", " ", Nbsp, "x"}

RECURSIVE AmountStrings(_)
AmountStrings(n) ==
    IF n = 0 THEN {<<>>}
    ELSE LET shorter == AmountStrings(n - 1)
         IN shorter \cup {Append(s, c) : s \in {t \in shorter : Len(t) = n - 1},
                                         c \in AmountChars}

\* The strings of test_normalize_amount that the claim quotes.
AmountExamples ==
    {<<"6", ".", "9", "3", "5", ".", "0", "0", "0", ",", "0", "0">>,
     <<"2", " ", "0", "5", "2", " ", "2", "0", "0", ",", "1", "4">>,
     <<"3", "5", "1", " ", "7", "5", "0", ".", "0", "0">>}

IsDigit(c) == \E i \in DOMAIN DigitChars : DigitChars[i] = c

DigitValue(c) == (CHOOSE i \in DOMAIN DigitChars : DigitChars[i] = c) - 1

Has(s, c) == \E i \in DOMAIN s : s[i] = c

\* str.replace(c, "")
Without(s, c) == SelectSeq(s, LAMBDA x : x # c)

\* str.replace(c, d)
Replace(s, c, d) == [i \in DOMAIN s |-> IF s[i] = c THEN d ELSE s[i]]

\* The branch on the separators: with both, the dots go and the commas
\* become dots; with commas only, the commas become dots.
SeparatorsOnlyBoth(cleaned) ==
    IF Has(cleaned, ".") /\ Has(cleaned, ",")
    THEN Replace(Without(cleaned, "."), ",", ".")
    ELSE cleaned

Separators(cleaned) ==
    LET has_dot == Has(cleaned, ".")
        has_comma == Has(cleaned, ",")
    IN IF has_dot /\ has_comma THEN Replace(Without(cleaned, "."), ",", ".")
       ELSE IF has_comma THEN Replace(cleaned, ",", ".")
       ELSE cleaned

\* "".join(parts[:-1]) + "." + parts[-1] for parts = cleaned.split(".")
JoinParts(cleaned) ==
    LET last == CHOOSE i \in DOMAIN cleaned :
                    /\ cleaned[i] = "."
                    /\ \A j \in DOMAIN cleaned : cleaned[j] = "." => j <= i
    IN Without(SubSeq(cleaned, 1, last - 1), ".")
           \o SubSeq(cleaned, last, Len(cleaned))

RECURSIVE Number(_)
Number(digits) ==
    IF digits = <<>> THEN 0
    ELSE 10 * Number(SubSeq(digits, 1, Len(digits) - 1))
             + DigitValue(digits[Len(digits)])

\* Decimal(cleaned) for digits with at most one dot.
DecimalOf(cleaned) ==
    LET dot == IF Has(cleaned, ".")
               THEN CHOOSE i \in DOMAIN cleaned : cleaned[i] = "." ELSE 0
    IN [coef |-> Number(Without(cleaned, ".")),
        places |-> IF dot = 0 THEN 0 ELSE Len(cleaned) - dot]

ValueError == "ValueError"

normalize_amount(amount_str) ==
    LET stripped == Without(Without(amount_str, Nbsp), " ")
        separated == Separators(stripped)
        kept == SelectSeq(separated, LAMBDA c : IsDigit(c) \/ c = ".")
        cleaned == IF Len(SelectSeq(kept, LAMBDA c : c = ".")) > 1
                   THEN JoinParts(kept) ELSE kept
    IN IF cleaned = <<>> \/ cleaned = <<".">> THEN ValueError
       ELSE DecimalOf(cleaned)

ApplyNormalizeAmount ==
    /\ input.kind = "amount"
    /\ output = NoOutput
    /\ output' = [kind |-> "amount", value |-> normalize_amount(input.text)]
    /\ UNCHANGED <<history, passing, lastId, gpt_enabled, enabled, cursor,
                   last_error, txns, queue, inflight, proc, catchup, retry,
                   response, offered, running, tasks, jobs, input, session, refs, writeback>>

\* ---------------------------------------------------------------- currency
\* Currency strings of the model: TransactionSchema.currency is any str.  An
\* upper-case letter, a lower-case letter and a character that is no letter.
CurrencyChars == {"U", "s", "$"}

RECURSIVE CurrencyStrings(_)
CurrencyStrings(n) ==
    IF n = 0 THEN {<<>>}
    ELSE LET shorter == CurrencyStrings(n - 1)
         IN shorter \cup {Append(s, c) : s \in {t \in shorter : Len(t) = n - 1},
                                         c \in CurrencyChars}

UZS == <<"U", "Z", "S">>

\* What the dialects of RegexParser put into 'currency'.
RegexCurrencies == {UZS, <<"U", "S", "D">>}

\* A parsed record as far as the currency goes: the method tag and the
\* currency the parser returned.
CurrencyRecords ==
    [kind : {"currency"}, method : {"REGEX_SMS", "REGEX_HUMO"},
     currency : RegexCurrencies]
    \cup [kind : {"currency"}, method : {"GPT", "GPT_VISION"},
          currency : CurrencyStrings(MaxCurrencyLen)]

\* str(currency).upper()
CurrencyUpper(currency) ==
    [i \in DOMAIN currency |-> IF currency[i] = "s" THEN "S" ELSE currency[i]]

\* The currency lines of _post_validate_and_enrich.
EnrichCurrency(currency) ==
    IF currency # <<>> THEN CurrencyUpper(currency) ELSE UZS

\* process_tdlib_message from the parsed record to the insert: records of
\* ParserOrchestrator.process are enriched, records of parse_from_images are
\* not; the insert fails on a method the check constraint refuses and on a
\* value longer than the column.
StoreCurrency(rec) ==
    LET parsed == IF rec.method = "GPT_VISION" THEN rec.currency
                  ELSE EnrichCurrency(rec.currency)
        currency == IF parsed # <<>> THEN parsed ELSE UZS
    IN IF ParsingMethodOk(rec.method) /\ Len(currency) <= CurrencyWidth
       THEN [kind |-> "stored", currency |-> currency]
       ELSE [kind |-> "failed", err |-> ErrSave]

ApplyStoreCurrency ==
    /\ input.kind = "currency"
    /\ output = NoOutput
    /\ output' = StoreCurrency(input)
    /\ UNCHANGED <<history, passing, lastId, gpt_enabled, enabled, cursor,
                   last_error, txns, queue, inflight, proc, catchup, retry,
                   response, offered, running, tasks, jobs, input, session, refs, writeback>>

\* ---------------------------------------------------------- specifications
\* The cursor specification follows one monitored chat (every statement on
\* monitored_bot_chats filters by chat_id): its history (arrivals and
\* deletions), the admin upsert, live push, catch-up and the workers.
Watched == {MinOf(Chats)}

InitCursor == InitWith(Watched)

NextCursor ==
    \/ \E c \in Watched, passes \in BOOLEAN, delivered \in BOOLEAN :
           NewMessage(c, passes, delivered)
    \/ \E c \in Watched, m \in MsgIds : DeleteMessage(c, m)
    \/ \E c \in Watched, en \in BOOLEAN, sfl \in BOOLEAN : UpdateMonitor(c, en, sfl)
    \/ \E w \in Workers : WorkerDequeue(w)
    \/ \E w \in Workers, reply \in Replies(Contents) : WorkerResume(w, reply)
    \/ CatchupBegin
    \/ CatchupResume
    \/ CatchupFail

SpecCursor == InitCursor /\ [][NextCursor]_vars

\* The pipeline specification: the watched chat stays enabled and only the
\* workers write its cursor; the database may fail under a worker.
NextPipeline ==
    \/ \E c \in Watched, passes \in BOOLEAN, delivered \in BOOLEAN :
           NewMessage(c, passes, delivered)
    \/ \E w \in Workers : WorkerDequeue(w)
    \/ \E w \in Workers, reply \in Replies(Contents) : WorkerResume(w, reply)
    \/ \E w \in Workers : WorkerDequeueFails(w)
    \/ \E w \in Workers, reply \in Replies(Contents) : WorkerResumeFails(w, reply)
    \/ CatchupBegin
    \/ CatchupResume
    \/ CatchupFail

SpecPipeline == InitCursor /\ [][NextPipeline]_vars

\* The store specification: live push, catch-up, the workers and direct
\* process-receipt requests racing on the same messages.
StoreReplies == FetchFailures \cup Parsed(Contents)

InitStore == Init /\ ~gpt_enabled

NextStore ==
    \/ \E c \in Chats, delivered \in BOOLEAN : NewMessage(c, TRUE, delivered)
    \/ \E w \in Workers : WorkerDequeue(w)
    \/ \E w \in Workers, reply \in StoreReplies : WorkerResume(w, reply)
    \/ \E a \in Callers, k \in Keys : ApiCall(a, k)
    \/ \E a \in Callers, reply \in StoreReplies : ApiResume(a, reply)
    \/ CatchupBegin
    \/ CatchupResume
    \/ CatchupFail

SpecStore == InitStore /\ [][NextStore]_vars

\* The lifecycle specification: the pipeline with stop().
NextLifecycle ==
    \/ \E c \in Watched, passes \in BOOLEAN, delivered \in BOOLEAN :
           NewMessage(c, passes, delivered)
    \/ \E w \in Workers : WorkerDequeue(w)
    \/ \E w \in Workers, reply \in Replies(Contents) : WorkerResume(w, reply)
    \/ CatchupBegin
    \/ CatchupResume
    \/ CatchupFail
    \/ Stop

SpecLifecycle == InitCursor /\ [][NextLifecycle]_vars

\* The restart specification: the lifecycle with start() after stop().
NextRestart ==
    \/ NextLifecycle
    \/ Start

SpecRestart == InitCursor /\ [][NextRestart]_vars

\* The task specification: the manual endpoints enqueue tracked Celery tasks
\* for the messages of one chat while direct process-receipt requests write
\* transactions for the same messages.
WatchedKeys == Watched \X MsgIds

InitTasks == InitWith({}) /\ ~gpt_enabled

NextTasks ==
    \/ \E c \in Watched : NewMessage(c, TRUE, FALSE)
    \/ \E a \in Callers, k \in WatchedKeys : ApiCall(a, k)
    \/ \E a \in Callers, reply \in StoreReplies : ApiResume(a, reply)
    \/ \E a \in Callers, k \in WatchedKeys : QueueDispatch(a, k)
    \/ \E a \in Callers : QueueCommit(a)
    \/ \E j \in 1..Len(jobs) : TaskStart(j)
    \/ \E j \in 1..Len(jobs), outcome \in TaskOutcomes : TaskFinish(j, outcome)

SpecTasks == InitTasks /\ [][NextTasks]_vars

\* The sign specification: one parsed record goes through validation, sign
\* and insert.
InitSign ==
    /\ InitService({})
    /\ ~gpt_enabled
    /\ input \in ParsedRecords
    /\ output = NoOutput

SpecSign == InitSign /\ [][ApplyStoreRow]_vars

\* The filter specification: one monitor row and one message.
InitFilter ==
    /\ InitService({})
    /\ ~gpt_enabled
    /\ input \in FilterInputs
    /\ output = NoOutput

SpecFilter == InitFilter /\ [][ApplyFilter]_vars

\* The cascade specification: one downloaded PDF, with and without a
\* configured model API.
InitCascade ==
    /\ InitService({})
    /\ input \in PdfInputs
    /\ output = NoOutput

SpecCascade == InitCascade /\ [][ApplyProcessPdf]_vars

\* The session specification: the manager from construction on, two
\* concurrent callers, the library answering and pushing.  A behaviour
\* exercises one auth step (input.step) next to get_auth_state.
InitSession ==
    /\ InitService({})
    /\ ~gpt_enabled
    /\ input \in [kind : {"step"}, step : AuthSteps]
    /\ output = NoOutput

NextSession ==
    \/ \E r \in Requesters, op \in {input.step, "get_auth_state"},
          st \in StartStates :
          Call(r, op, st)
    \/ \E request \in session.sent :
          \E type \in Answers(request.type) : LibReply(request, type)
    \/ \E st \in PushedStates : LibUpdate(st)
    \/ \E m \in session.inbox : HandleIncoming(m)
    \/ \E r \in Requesters : Timeout(r)
    \/ \E r \in Requesters : Resume(r)

SpecSession == InitSession /\ [][NextSession]_vars

\* The mapper specification: one dictionary, one operator string, one order
\* in which the query returns the active rows.
InitMapper ==
    /\ InitCapture({})
    /\ ~gpt_enabled
    /\ session = NewSession
    /\ writeback = [w \in Workers |-> NoWriteback]
    /\ refs \in Dictionaries
    /\ input \in MapperInputs(refs)
    /\ output = NoOutput

SpecMapper == InitMapper /\ [][ApplyMapOperator]_vars

\* The resolver specification: a dictionary of at most one row, one
\* operator string, one answer of the model, with and without a model.
InitResolver ==
    /\ InitCapture({})
    /\ session = NewSession
    /\ writeback = [w \in Workers |-> NoWriteback]
    /\ refs \in {rows \in Dictionaries : Len(rows) <= 1}
    /\ input \in ResolverInputs(refs)
    /\ output = NoOutput

SpecResolver == InitResolver /\ [][ApplyResolve]_vars

\* The write-back specification: a dictionary of at most one row built by
\* the admin, and the tasks of two Celery workers writing suggestions back.
InitWriteback ==
    /\ InitCapture({})
    /\ gpt_enabled
    /\ session = NewSession
    /\ writeback = [w \in Workers |-> NoWriteback]
    /\ refs \in {rows \in Dictionaries : Len(rows) <= 1}
    /\ input = NoInput
    /\ output = NoOutput

NextWriteback ==
    \/ \E w \in Workers, suggestion \in Suggestions :
          WritebackProbe(w, suggestion)
    \/ \E w \in Workers : WritebackCommit(w)

SpecWriteback == InitWriteback /\ [][NextWriteback]_vars

\* The forced specification: no chat is monitored, every receipt is
\* processed by POST /process-receipt with force = true.
NextForce ==
    \/ \E c \in Chats : NewMessage(c, TRUE, FALSE)
    \/ \E a \in Callers, k \in Keys : ApiForce(a, k)
    \/ \E a \in Callers, reply \in StoreReplies : ApiResume(a, reply)

InitForce ==
    /\ InitWith({})
    /\ ~gpt_enabled

SpecForce == InitForce /\ [][NextForce]_vars

\* The persistence specification: every reply on every address, on an empty
\* table and on a table that holds message 1 of chat 1.
InitPersist ==
    /\ InitService({})
    /\ input \in {i \in PersistInputs :
                     ~gpt_enabled => ~(i.reply.content # 0
                                       /\ i.reply.method \in {"GPT", "GPT_VISION"})}
    /\ output = NoOutput

SpecPersist == InitPersist /\ [][ApplyProcessReply]_vars

\* The text specification: one text through ParserOrchestrator.process,
\* with and without a configured model.
InitText ==
    /\ InitService({})
    /\ input \in Texts
    /\ output = NoOutput

SpecText == InitText /\ [][ApplyProcess]_vars

\* The fingerprint specification: two triples through compute_fingerprint.
InitFingerprint ==
    /\ InitService({})
    /\ ~gpt_enabled
    /\ input \in [kind : {"fingerprint"}, a : FingerprintArgs, b : FingerprintArgs]
    /\ output = NoOutput

SpecFingerprint == InitFingerprint /\ [][ApplyFingerprint]_vars

\* The amount specification: every short amount string and the quoted
\* examples through normalize_amount.
InitAmount ==
    /\ InitService({})
    /\ ~gpt_enabled
    /\ input \in [kind : {"amount"},
                  text : AmountStrings(MaxAmountLen) \cup AmountExamples]
    /\ output = NoOutput

SpecAmount == InitAmount /\ [][ApplyNormalizeAmount]_vars

\* The currency specification: one parsed record from each parse path to
\* the insert.
InitCurrency ==
    /\ InitService({})
    /\ gpt_enabled
    /\ input \in CurrencyRecords
    /\ output = NoOutput

SpecCurrency == InitCurrency /\ [][ApplyStoreCurrency]_vars

\* =================================================================== claims
\* C1: under every interleaving of live push, catch-up, the workers and direct
\* process-receipt requests (force=false), the transactions table holds at
\* most one row per (chat_id, message_id), and processing a pair that already
\* has a row answers with that row (duplicate, not created) without fetching
\* the message and without inserting.
C1OneRowPerSource ==
    \A i, j \in 1..Len(txns) :
        (txns[i].chat = txns[j].chat /\ txns[i].msg = txns[j].msg) => i = j

C1AnswersExisting(p, k) ==
    /\ response'.by = p
    /\ response'.key = k
    /\ response'.kind = "duplicate"
    /\ response'.txn = RowId(txns, k)
    /\ ~response'.fetched
    /\ proc'[p].pc = "idle"
    /\ txns' = txns

C1Reprocess ==
    /\ \A a \in Callers, k \in Keys :
           (ApiCall(a, k) /\ HasRow(txns, k)) => C1AnswersExisting(a, k)
    /\ \A w \in Workers :
           (WorkerDequeue(w) /\ enabled[Head(queue)[1]] /\ HasRow(txns, Head(queue)))
               => C1AnswersExisting(w, Head(queue))

C1Idempotent == [](C1OneRowPerSource) /\ [][C1Reprocess]_vars

\* A worker finds the row a direct request inserted after the enqueue.
C1Witness ==
    /\ response.kind = "duplicate"
    /\ response.by \in Workers
    /\ ~response.fetched
    /\ HasRow(txns, response.key)
    /\ response.txn = RowId(txns, response.key)

\* C2: two receipts with the same (|amount|, minute, last four), that is the
\* same content key, also from different messages and chats, never leave more
\* than one row in the transactions table.
C2OneRowPerContent ==
    \A i, j \in 1..Len(txns) : txns[i].content = txns[j].content => i = j

\* C3: last_processed_message_id of a chat never decreases, whatever worker
\* completions and admin upserts with start_from_latest are interleaved.
C3CursorMonotone == [][\A c \in Chats : cursor'[c] >= cursor[c]]_vars

\* C4: the cursor is a lower bound on the work still to do: no filter-passing
\* message whose latest attempt failed transiently lies at or below the
\* cursor of its chat.
C4CursorLowerBound ==
    \A k \in retry : k \in passing => k[2] > cursor[k[1]]

\* C5: when a worker's processing of (chat_id, message_id) fails with a
\* timeout, transport or storage error, the cursor of every chat and the
\* transactions table are unchanged, and of the monitor rows only last_error
\* of that chat changes, to the failure text.
C5TransientErrors == {ErrFetch, ErrSave}

C6RetriedByCatchup ==
    [][CatchupResume
       => \A k \in retry :
              (k[1] = Head(catchup.todo).chat /\ k \in passing /\ enabled[k[1]])
                  => k \in inflight']_vars

\* C7: after a terminal outcome of a worker for (chat_id, message_id), a
\* success, a duplicate or a failure whose text matches "cannot parse",
\* "empty", "unsupported", "missing" or "invalid", the cursor of the chat is
\* max(previous cursor, message_id) and last_error is the failure text (null
\* after a success).
C7Patterns ==
    { <<"cannot", "parse">>, <<"empty">>, <<"unsupported">>, <<"missing">>,
      <<"invalid">> }

C7Terminal(resp) ==
    /\ resp.by \in Workers
    /\ \/ resp.kind \in {"created", "duplicate"}
       \/ resp.kind = "error" /\ \E pat \in C7Patterns : Contains(resp.err, pat)

C8NotFoundPermanent ==
    (response.by \in Workers /\ response.kind = "error" /\ response.err = ErrNotFound)
        => cursor[response.key[1]] >= response.key[2]

\* C9: a PDF that needs the vision fallback while the model API is not
\* configured fails permanently: the cursor of the chat is at least the
\* message id afterwards.
C9VisionUnavailablePermanent ==
    (response.by \in Workers /\ response.kind = "error" /\ response.err = ErrVision)
        => cursor[response.key[1]] >= response.key[2]

\* C10: a processing whose insert is refused because a concurrent processing
\* inserted the same address first resolves to the winning row: it never ends
\* in a save error while a row with its address exists.
C10LoserResolves ==
    (response.by \in Procs /\ response.err = ErrSave)
        => ~HasRow(txns, response.key)

\* C11: a call of _enqueue for a tuple that is in flight or has a transactions
\* row changes neither the queue nor the in-flight set for that tuple; no
\* tuple is in the queue twice; no two workers process the same tuple at the
\* same time.
C11Count(q, k) == Cardinality({i \in 1..Len(q) : q[i] = k})

C11Exclusive ==
    /\ \A k \in Keys : C11Count(queue, k) <= 1
    /\ \A w1, w2 \in Workers :
           (proc[w1].pc = "await" /\ proc[w2].pc = "await"
            /\ proc[w1].key = proc[w2].key) => w1 = w2

C11NoOp ==
    \A k \in offered' :
        (k \in inflight \/ HasRow(txns, k))
            => /\ C11Count(queue', k) = C11Count(queue, k)
               /\ (k \in inflight') = (k \in inflight)

C12Alive == \A w \in Workers : proc[w].pc \in {"idle", "await"}

C12Ended(w) ==
    \/ proc[w].pc = "await" /\ proc'[w] # proc[w]
    \/ proc[w].pc = "idle" /\ response'.by = w

C12Released ==
    \A w \in Workers :
        C12Ended(w) => /\ proc'[w] = Idle
                       /\ response'.by = w
                       /\ response'.key \notin inflight'

C12WorkerGoesOn == [](C12Alive) /\ [][C12Released]_vars

\* The insert was committed, the update of the monitor row raised: the key is
\* released and the worker waits at the queue, where the next tuple lies.
C12Witness ==
    /\ response.kind = "crashed"
    /\ response.by \in Workers
    /\ response.fetched
    /\ HasRow(txns, response.key)
    /\ cursor[response.key[1]] < response.key[2]
    /\ proc[response.by] = Idle
    /\ response.key \notin inflight
    /\ queue # <<>>

\* C13: every tuple a pipeline worker has attempted has its processing-task
\* row, and the row follows the worker: done with the transaction id after a
\* success or a duplicate, failed with the error text after a failure.
C13TaskRowFollowsWorker ==
    (response.by \in Workers /\ response.kind \in {"created", "duplicate", "error"})
        => IF response.kind = "error"
           THEN /\ tasks[response.key].status = "failed"
                /\ tasks[response.key].err = response.err
           ELSE /\ tasks[response.key].status = "done"
                /\ tasks[response.key].txn = response.txn

\* C14: the state of a processing-task row only moves forward (queued, then
\* processing, then done or failed) under every sequence of enqueues, task
\* runs and retries; the one backward move is failed to queued.
C14Rank(status) ==
    IF status = "none" THEN 0
    ELSE IF status = "queued" THEN 1
    ELSE IF status = "processing" THEN 2
    ELSE 3

C14ForwardOnly ==
    [][\A k \in Keys :
          tasks'[k].status # tasks[k].status
              => \/ C14Rank(tasks'[k].status) > C14Rank(tasks[k].status)
                 \/ tasks[k].status = "failed" /\ tasks'[k].status = "queued"]_vars

\* C15: once stop has been called, neither the live-push handler nor the
\* catch-up loop adds a tuple to the queue, and the workers end only when
\* every tuple queued before the stop has been processed.
C15NoEnqueueAfterStop == ~running => Len(queue') <= Len(queue)

C15Drained ==
    (\A w \in Workers : proc[w].pc = "cancelled")
        => queue = <<>>

C15StopDrains == [](C15Drained) /\ [][C15NoEnqueueAfterStop]_vars

\* C16: every transactions row the pipeline writes has transaction_type
\* DEBIT exactly when its amount is negative, and its amount is never zero.
C16SignMatchesType ==
    output.kind = "row"
        => /\ (output.type = "DEBIT") <=> (output.amount < 0)
           /\ output.amount # 0

\* C17: for a message without an attached PDF from a group-style chat, the
\* filter returns false when filter_mode is whitelist and the keyword list is
\* empty, and when filter_mode is blacklist and the keyword list is empty it
\* returns exactly the default-keyword predicate: the text has at least 20
\* characters and contains a default receipt keyword, in any case.
C17Case(mode) ==
    /\ output.kind = "filter"
    /\ \/ input.monitor.chat_type \in {"group", "supergroup", "channel"}
       \/ input.message.chat_id < 0
    /\ input.monitor.filter_mode = mode
    /\ ParseKeywords(input.monitor.filter_keywords) = {}

C17ContainsDefault ==
    \E w \in input.message.words : w \in {"uzs", "UZS"}

C17EmptyKeywordList ==
    input.message.mime # "application/pdf"
        => /\ C17Case("whitelist") => ~output.pass
           /\ C17Case("blacklist")
                  => (output.pass <=> (input.message.len >= 20 /\ C17ContainsDefault))

\* Blacklist without keywords in a supergroup: a text of 20 characters with
\* the keyword in capitals passes.
C17Witness ==
    /\ C17Case("blacklist")
    /\ input.message.mime = "none"
    /\ input.message.words = {"UZS"}
    /\ input.message.len = 20
    /\ output.pass

\* C17 as stated, for every message of a group-style chat and with "contains
\* a default receipt keyword" as the default-keyword predicate.
C17EveryMessage ==
    /\ C17Case("whitelist") => ~output.pass
    /\ C17Case("blacklist") => (output.pass <=> C17ContainsDefault)

\* C18: a message with an attached PDF passes the filter for every filter
\* mode, keyword list, chat type and caption, the empty caption included.
C18PdfPasses ==
    (output.kind = "filter" /\ input.message.mime = "application/pdf")
        => output.pass

\* A PDF without caption in a channel whose monitor is a whitelist without
\* keywords.
C18Witness ==
    /\ output.kind = "filter"
    /\ input.message.mime = "application/pdf"
    /\ input.message.len = 0
    /\ input.monitor.chat_type = "channel"
    /\ input.monitor.filter_mode = "whitelist"
    /\ ParseKeywords(input.monitor.filter_keywords) = {}
    /\ output.pass

\* C19: in all mode a text message without PDF, of at least 20 characters,
\* from a group-style chat passes exactly when it contains a default receipt
\* keyword or a custom keyword, in any case; one hit in either list is enough.
C19EitherListPasses ==
    (/\ output.kind = "filter"
     /\ input.monitor.filter_mode = "all"
     /\ input.message.mime # "application/pdf"
     /\ input.message.len >= 20
     /\ \/ input.monitor.chat_type \in {"group", "supergroup", "channel"}
        \/ input.message.chat_id < 0)
        => (output.pass
               <=> \/ C17ContainsDefault
                   \/ \E kw \in ParseKeywords(input.monitor.filter_keywords) :
                          \E w \in input.message.words : Lower(w) = Lower(kw))

\* C20: for a PDF (the model API configured, the pages rendering) the vision
\* model is invoked exactly when the extraction yields fewer than 80
\* characters or the text cascade, regex then model-text, yields no accepted
\* record; when the extraction yields at least 80 characters and a regex
\* dialect parses the text, the parser input includes the extracted text and
\* the vision model is not invoked.
C20CascadeAccepts ==
    input.regex_conf >= 80 \/ (gpt_enabled /\ input.gpt_conf >= 0)

C20VisionExactlyWhen ==
    (output.kind = "pdf" /\ gpt_enabled /\ input.render_ok)
        => /\ output.vision_invoked
                  <=> (input.extracted_len < 80 \/ ~C20CascadeAccepts)
           /\ (input.extracted_len >= 80 /\ input.regex_conf > 0)
                  => ("extracted" \in output.parser_input /\ ~output.vision_invoked)

C21FreshTokens ==
    /\ \A t \in DOMAIN session.pending :
          /\ Awaiting(session, session.pending[t])
          /\ session.req[session.pending[t]].token = t
    /\ \A r \in Requesters :
          Awaiting(session, r) =>
             /\ session.req[r].token \in DOMAIN session.pending
             /\ session.pending[session.req[r].token] = r
    /\ \A p, q \in session.sent : p.extra = q.extra => p = q
    /\ \A q \in session.sent : q.extra = 0 => q.type = "getAuthorizationState"

\* What _handle_incoming does with the message m it takes from the receiver.
C21Delivered(m) ==
    IF m.extra # 0 /\ m.extra \in DOMAIN session.pending
    THEN LET r == session.pending[m.extra]
         IN /\ session'.req[r].reply = m.type
            /\ \A o \in Requesters \ {r} : session'.req[o] = session.req[o]
            /\ DOMAIN session'.pending = DOMAIN session.pending \ {m.extra}
            /\ session'.event.kind # "update"
            /\ session'.auth = session.auth
    ELSE /\ session'.event.kind = "update"
         /\ session'.req = session.req
         /\ session'.pending = session.pending

C21Matching ==
    \A m \in session.inbox : m \notin session'.inbox => C21Delivered(m)

C22ErrorReplyFails ==
    ~ /\ session.event.kind = "return"
      /\ session.event.op \in AuthSteps
      /\ session.event.ret = "error"

\* The steps of get_auth_state itself: its call, and each resumption of the
\* coroutine that runs it.
C23StepOfGetAuthState(r) ==
    \/ /\ session.req[r].pc = "idle"
       /\ \/ session'.req[r].op = "get_auth_state"
          \/ /\ session'.event.kind = "return"
             /\ session'.event.r = r
             /\ session'.event.op = "get_auth_state"
    \/ /\ session.req[r].op = "get_auth_state"
       /\ session.req[r].reply # "none"
       /\ session'.req[r] # session.req[r]

\* C23: get_auth_state only reads: none of its steps changes the client
\* handle, the receiver thread, the cached user or the pending-request map,
\* and none sends a request to the library.
C23GetAuthStateOnlyReads ==
    [][\A r \in Requesters :
          C23StepOfGetAuthState(r) =>
             /\ session'.client = session.client
             /\ session'.receiver = session.receiver
             /\ session'.me = session.me
             /\ session'.pending = session.pending
             /\ session'.sent = session.sent]_vars

\* The matcher the specification describes, over the active rows: a row whose
\* normalized name equals the normalized operator, else the row with the
\* longest normalized name contained in it, the lowest id among equals.
C24LowestId(ids) == CHOOSE i \in ids : \A j \in ids : i <= j

C24Row(rows, i, match_type) ==
    [match_type |-> match_type, reference_id |-> i,
     application_name |-> rows[i].application_name, is_p2p |-> rows[i].is_p2p]

C24Reference(rows, operator_raw) ==
    LET wanted == normalize_operator(operator_raw)
        pattern(i) == normalize_operator(rows[i].operator_name)
        usable == {i \in ActiveIds(rows) : pattern(i) # <<>>}
        equal == {i \in usable : pattern(i) = wanted}
        inside == {i \in usable : Contains(wanted, pattern(i))}
        longest == {i \in inside : \A j \in inside : Len(pattern(j)) <= Len(pattern(i))}
    IN IF wanted = <<>> THEN NoMatch
       ELSE IF equal # {} THEN C24Row(rows, C24LowestId(equal), "EXACT")
       ELSE IF longest # {} THEN C24Row(rows, C24LowestId(longest), "SUBSTRING")
       ELSE NoMatch

\* C24: map_operator_details equals the reference matcher over the active
\* rows: the equal pattern (EXACT), else the longest contained pattern
\* (SUBSTRING) with ties broken by reference id, else no match.
C24MatchesReference ==
    output.kind = "match" =>
        output.match = C24Reference(refs, input.operator_raw)

\* The case of C25: an operator that no active dictionary row matches.
C25NoDictionaryMatch ==
    /\ output.kind = "resolved"
    /\ C24Reference(refs, input.operator_raw) = NoMatch

C25Usable ==
    /\ gpt_enabled
    /\ input.ai # NoAnswer
    /\ input.ai.application_name # "Unknown"
    /\ input.ai.confidence >= 75

\* C25: when no dictionary row matches, the model's answer is used only if
\* the model is configured, its application is not "Unknown" and its
\* confidence is at least 0.75; in every other case application_mapped is
\* null and is_p2p is true exactly when the upper-cased operator contains
\* "P2P".
C25ModelFallback ==
    C25NoDictionaryMatch =>
        /\ output.record.application_mapped # None => C25Usable
        /\ ~C25Usable =>
              /\ output.record.application_mapped = None
              /\ output.record.is_p2p = HasP2P(input.operator_raw)

\* A configured model answers just under the threshold with is_p2p false for
\* an operator that spells p2p in lower case.
C25Witness ==
    /\ C25NoDictionaryMatch
    /\ gpt_enabled
    /\ input.ai.application_name = "app2"
    /\ input.ai.confidence = 74
    /\ ~input.ai.is_p2p
    /\ input.operator_raw = <<"p", "2", "p">>
    /\ output.record.is_p2p
    /\ output.record.application_mapped = None

\* The active part of the dictionary: the ids of the active rows and the rows.
C26Active(rows) == {<<i, rows[i]>> : i \in {j \in DOMAIN rows : rows[j].is_active}}

\* What a mapper built on the table answers, for every operator and every
\* order of the rows.
C26Matches(rows) ==
    [operator_raw \in Strings(MaxOperatorLen) |->
        {map_operator_details(CacheOf(rows, order), operator_raw) :
            order \in ScanOrders(ActiveIds(rows))}]

C26StepKeepsActive ==
    /\ C26Active(refs') = C26Active(refs)
    /\ \A i \in DOMAIN refs : refs'[i] = refs[i]
    /\ C26Matches(refs') = C26Matches(refs)

\* C26: no pipeline step adds an active OperatorReference row or activates
\* one: a row written back from the model fallback has is_active = false, so
\* the active rows, and every dictionary match, are what they were.
C26ActiveDictionaryUnchanged == [][C26StepKeepsActive]_vars

\* A suggestion was written back next to an active row of the same
\* normalized name: the new row is inactive and the active row still matches.
C26Witness ==
    /\ Len(refs) = 2
    /\ refs[1].is_active
    /\ ~refs[2].is_active
    /\ normalize_operator(refs[1].operator_name) = refs[2].operator_name
    /\ \A w \in Workers : writeback[w].pc = "idle"

\* C27: there is at most one OperatorReference row per (operator_name,
\* application_name), also when workers write the same suggestion back
\* concurrently.
C27OneRowPerPair ==
    \A i, j \in DOMAIN refs :
        /\ refs[i].operator_name = refs[j].operator_name
        /\ refs[i].application_name = refs[j].application_name
        => i = j

\* C28: a request with force = true skips the (chat_id, message_id) probe
\* but not the fingerprint probe: a forced run whose parsed content is
\* already stored inserts no row and answers with the existing transaction
\* as a duplicate, never with an error of the insert.
C28ForcedRun(a) ==
    /\ Len(txns') > Len(txns) =>
          \A i \in DOMAIN txns : txns[i].content # txns'[Len(txns')].content
    /\ response'.err # ErrSave

C28ForceKeepsFingerprintProbe ==
    [][\A a \in Callers :
          (proc[a].pc = "await" /\ proc'[a].pc = "idle") => C28ForcedRun(a)]_vars

\* The case of C29: the vision model returned a record for a PDF whose
\* address has no row yet.
C29VisionParsed ==
    /\ output.kind = "processed"
    /\ gpt_enabled
    /\ input.reply.shape = "pdf"
    /\ input.reply.vision
    /\ input.reply.content # 0
    /\ input.reply.defect = "none"
    /\ ~HasRow(input.rows, input.key)

\* C29: a PDF receipt the vision model parses is persisted as a Transaction
\* with parsing_method GPT_VISION, and the parsing_method of every persisted
\* row is one of REGEX_HUMO, REGEX_SMS, REGEX_SEMICOLON, REGEX_CARDXABAR, GPT,
\* GPT_VISION.
C29VisionPersisted ==
    /\ C29VisionParsed =>
          /\ output.outcome.kind = "created"
          /\ input.reply.method = "GPT_VISION"
    /\ (output.kind = "processed" /\ output.outcome.kind = "created") =>
          input.reply.method \in
             {"REGEX_HUMO", "REGEX_SMS", "REGEX_SEMICOLON", "REGEX_CARDXABAR",
              "GPT", "GPT_VISION"}

\* A dialect that parse called returned a record with confidence at least
\* 0.8 and the record passes post-validation.
C30RegexAccepts ==
    /\ ~input.blank
    /\ \E d \in Called(input) :
          /\ input.dialect[d] = "record"
          /\ DialectConfidence[d] >= 80
    /\ ~input.zero_amount

\* C30: with no language model configured the cascade returns a record
\* exactly when some regex dialect returns a record with confidence at least
\* 0.8 that passes post-validation; for every other text it returns null
\* without raising.
C30RegexOnly ==
    (output.kind = "parsed" /\ ~gpt_enabled) =>
        /\ ~output.raised
        /\ output.result # NoRecord <=> C30RegexAccepts

\* Without a model, the last dialect returns a record after the others found
\* nothing, and the cascade returns it.
C30Witness ==
    /\ output.kind = "parsed"
    /\ ~gpt_enabled
    /\ input.dialect = <<"none", "none", "none", "record">>
    /\ output.result = [method |-> "REGEX_SMS", conf |-> 90]

\* The marks infer_transaction_type finds in the type string joined with the
\* text of the stored record.
C31Found == input.marks \cup
    (CASE input.raw_type = "REVERSAL" -> {"reversal"}
       [] input.raw_type = "CONVERSION" -> {"conversion"}
       [] input.raw_type = "CREDIT" -> {"credit"}
       [] input.raw_type = "DEBIT" -> {"debit"}
       [] OTHER -> {})

\* The order of the classification: a reversal keyword wins over every other
\* mark, a conversion keyword over signs and keywords, a sign over keywords,
\* and DEBIT is what is left.
C31Priority ==
    output.kind = "row" =>
        /\ "reversal" \in input.marks => output.type = "REVERSAL"
        /\ output.type # "REVERSAL" => "reversal" \notin C31Found
        /\ ("reversal" \notin C31Found /\ "conversion" \in C31Found)
              => output.type = "CONVERSION"
        /\ (C31Found \cap {"reversal", "conversion"} = {} /\ "plus" \in C31Found)
              => output.type = "CREDIT"
        /\ (C31Found \cap {"reversal", "conversion", "plus"} = {}
            /\ "minus" \in C31Found)
              => output.type = "DEBIT"
        /\ (C31Found \cap {"reversal", "conversion", "plus", "minus"} = {}
            /\ "credit" \in C31Found)
              => output.type = "CREDIT"
        /\ C31Found \subseteq {"debit"} => output.type = "DEBIT"

\* C31: a receipt whose text carries a reversal keyword is stored as REVERSAL
\* with a positive amount, whatever purchase keyword or sign marker it also
\* carries; without a reversal keyword the conversion keywords, then the sign
\* markers, then the credit and debit keywords decide, and DEBIT is the
\* fallback.
C31ReversalFirst ==
    /\ C31Priority
    /\ (output.kind = "row" /\ "reversal" \in input.marks) => output.amount > 0

RECURSIVE C32Pow10(_)
C32Pow10(n) == IF n = 0 THEN 1 ELSE 10 * C32Pow10(n - 1)

\* |amount| in units of 10^-MaxPlaces, the minute and the last four characters
\* of the card.
C32Key(x) ==
    <<x.amount.coef * C32Pow10(MaxPlaces - x.amount.places),
      x.date.minute, LastFour(x.card)>>

\* Two inputs that differ in one of the three give different strings.
C32OtherKeyOtherString ==
    output.kind = "fingerprint"
        => (C32Key(input.a) # C32Key(input.b) => output.a # output.b)

\* C32: the string that is digested depends only on (|amount|, the timestamp
\* truncated to the minute, the last four of the card): two inputs that agree
\* on the three give the same string, whatever the sign, the seconds and the
\* decimal representation of the amount, and two inputs that differ in one of
\* the three give different strings.
C32FingerprintIsTheKey ==
    /\ C32OtherKeyOtherString
    /\ output.kind = "fingerprint"
          => (C32Key(input.a) = C32Key(input.b) => output.a = output.b)

\* What the rule gives for a string: no value without a digit; otherwise all
\* the digits, with as many decimal places as digits follow the last decimal
\* separator, the comma when the string has one and the dot otherwise.
C33Rule(text) ==
    LET t == Without(Without(text, Nbsp), " ")
        sep == IF Has(t, ",") THEN "," ELSE "."
        last == IF Has(t, sep)
                THEN CHOOSE i \in DOMAIN t :
                         /\ t[i] = sep
                         /\ \A j \in DOMAIN t : t[j] = sep => j <= i
                ELSE Len(t)
        digits == SelectSeq(t, IsDigit)
    IN IF digits = <<>> THEN ValueError
       ELSE [coef |-> Number(digits),
             places |-> Len(SelectSeq(SubSeq(t, last + 1, Len(t)), IsDigit))]

C34UpperLetters == {"U", "S", "Z", "D"}

\* The row's currency is UZS when the parser supplied none.
C34DefaultUZS ==
    (output.kind = "stored" /\ input.currency = <<>>) => output.currency = UZS

\* C34: every row the pipeline writes, whichever parse path produced it, has
\* a currency of exactly three upper-case letters, and the currency is UZS
\* when the parser supplied none.
C34ThreeLetterCurrency ==
    /\ C34DefaultUZS
    /\ output.kind = "stored" =>
          /\ Len(output.currency) = 3
          /\ \A i \in DOMAIN output.currency : output.currency[i] \in C34UpperLetters

\* The route has just answered an upsert with enabled and start_from_latest
\* on chat c, whose newest message is L.
C35Seeded(c, L) ==
    /\ response.kind = "monitor"
    /\ response.fetched
    /\ response.key[1] = c
    /\ history[c] # {}
    /\ MaxOf(history[c]) = L

C35CursorIsLatest ==
    \A c \in Watched, L \in MsgIds : C35Seeded(c, L) => cursor[c] = L

\* A catch-up pass is under way with chat c still on its list.
C35PassHolds(c) ==
    /\ catchup.pc = "await"
    /\ \E i \in DOMAIN catchup.todo : catchup.todo[i].chat = c

\* The last step offered no message of chat c at or below L to the queue.
C35NoReplay(c, L) == \A k \in offered : k[1] = c => k[2] > L

C36Added == SubSeq(queue', Len(queue) + 1, Len(queue'))

\* The step of _catchup_chat for the chat at the head of the list: it only
\* appends, and what it appends are ids of that chat above the cursor value
\* the pass read, in strictly ascending order.
C36PassEnqueues ==
    (catchup.pc = "await" /\ catchup' # catchup) =>
        /\ Len(queue') >= Len(queue)
        /\ SubSeq(queue', 1, Len(queue)) = queue
        /\ \A i \in DOMAIN C36Added :
              /\ C36Added[i][1] = Head(catchup.todo).chat
              /\ C36Added[i][2] > Head(catchup.todo).cursor
        /\ \A i, j \in DOMAIN C36Added :
              i < j => C36Added[i][2] < C36Added[j][2]

\* The queue is first in, first out: a step appends at the tail, or a worker
\* takes the head.
C36Fifo ==
    \/ /\ Len(queue') >= Len(queue)
       /\ SubSeq(queue', 1, Len(queue)) = queue
    \/ /\ queue # <<>>
       /\ queue' = Tail(queue)
       /\ \E w \in Workers :
             /\ proc[w].pc = "idle"
             /\ \/ proc'[w].pc = "await" /\ proc'[w].key = Head(queue)
                \/ response'.by = w /\ response'.key = Head(queue)

\* C36: a catch-up pass for a chat enqueues only ids strictly above the
\* cursor value it read, each at most once and in ascending order, and the
\* queue hands them to the workers in that order.
C36AscendingCatchup == [][C36PassEnqueues /\ C36Fifo]_vars

\* A pass has just enqueued messages 1 and 2 of a chat, in that order.
C36Witness ==
    \E c \in Watched :
        /\ offered = {<<c, 1>>, <<c, 2>>}
        /\ queue = <<<<c, 1>>, <<c, 2>>>>
        /\ catchup.pc = "sleep"

\* C37: in every reachable state, also after stop() and after a start() that
\* follows it, every tuple that waits in the queue or is with a worker is in
\* the in-flight set.
C37QueuedIsInflight ==
    /\ \A i \in DOMAIN queue : queue[i] \in inflight
    /\ \A w \in Workers : proc[w].pc = "await" => proc[w].key \in inflight

\* C38: whatever the order of queue_receipt_task's commit and the dispatched
\* task's steps, once the task has finished and queue_receipt_task has
\* returned, the tracking row that carries the task's id is done or failed,
\* never queued or processing.
C38FinishedRowSettled ==
    \A j \in 1..Len(jobs) :
        (jobs[j].pc = "end" /\ ~jobs[j].pending /\ Tracking(j))
            => tasks[jobs[j].key].status \in {"done", "failed"}

\* A catch-up iteration ends at this step.
C39IterationEnds == catchup.pc = "await" /\ catchup'.pc = "sleep"

\* C39: a catch-up iteration ends only when no chat of its list that is still
\* enabled waits behind the chat being scanned, so a failure of get_messages
\* for one chat leaves no other enabled chat unscanned in that iteration.
C39EveryChatScanned ==
    [][C39IterationEnds
          => \A i \in 2..Len(catchup.todo) : ~enabled[catchup.todo[i].chat]]_vars

\* The pending map holds exactly the tokens of the requests whose future is
\* still open: a request that got its reply or timed out has no token there.
C40PendingIsOpen ==
    /\ \A t \in DOMAIN session.pending :
          /\ Awaiting(session, session.pending[t])
          /\ session.req[session.pending[t]].token = t
    /\ \A r \in Requesters :
          session.req[r].reply # "none"
              => session.req[r].token \notin DOMAIN session.pending

\* A message with a token that is not pending is taken from the inbox: it
\* goes to _process_update, and no request and no future changes.
C40LateReplyIsUpdate ==
    \A m \in session.inbox :
        (m \notin session'.inbox /\ m.extra # 0
            /\ m.extra \notin DOMAIN session.pending)
        => /\ session'.event.kind = "update"
           /\ session'.event.extra = m.extra
           /\ session'.req = session.req
           /\ session'.pending = session.pending

====
